---- MODULE Spec2Model ----
(***************************************************************************)
(* Model of sora's message metadata store (src/db/append.go) and of the    *)
(* sequence-number trigger (src/db/migrations/000002_..._caching.up.sql).  *)
(*                                                                         *)
(* The store's operations run inside PostgreSQL transactions (pgx.Tx) at   *)
(* the default READ COMMITTED level.  One step of the model is one SQL     *)
(* statement of a transaction, together with the AFTER ... FOR EACH        *)
(* STATEMENT trigger it fires:                                             *)
(*   - rows written by a transaction carry its id in xmin and are seen     *)
(*     only by that transaction until it commits;                          *)
(*   - UPDATE mailboxes takes the row lock of the mailbox row, held to the *)
(*     end of the transaction; a statement that has to wait for a lock is  *)
(*     not enabled until the lock is free;                                 *)
(*   - nextval() is not transactional: a value drawn is never given back;  *)
(*   - a statement that raises an error undoes its own row changes and     *)
(*     leaves the transaction aborted: every later statement of the        *)
(*     transaction fails and its end is a rollback.                        *)
(***************************************************************************)
EXTENDS Integers, Sequences, FiniteSets, TLC

\* ------------------------------------------------------------------ bounds

\* Operations (InsertMessage, InsertMessageFromImporter, CopyMessages, an
\* expunge, an upload completion) begun in one behaviour, after the appends
\* of the initial state.  It caps the sequences and highest_uid.
MaxOps == 2

\* Script operations (CreateScript, UpdateScript, DeleteScript,
\* SetScriptActive) begun in one behaviour.
MaxScriptOps == 2

\* Commands one ManageSieve session handles in one behaviour.
MaxCommands == 4

\* Accept calls of the connection limiter begun in one behaviour.
MaxAccepts == 4

\* XCLIENT commands one POP3 session handles in one behaviour.
MaxXclients == 2

\* Pre-lookups (LookupUserRoute) begun in one behaviour.
MaxLookups == 7

\* Set, Get and cleanup calls of the pre-lookup cache in one behaviour.
MaxCacheOps == 4

\* Ticks of the clock the pre-lookup cache reads in one behaviour.
MaxNow == 3

\* Requests the admin API serves in one behaviour.
MaxAdminRequests == 2

\* Searches of one IMAP session in one behaviour.
MaxSearches == 2

\* Transactions that may be open at the same time.
Tx == {"t1", "t2"}
NoTx == "none"

MailboxIds == {1, 2}
Accounts == {1}

\* The messages handed to APPEND/LMTP/import: Message-ID and content hash.
\* InputA and InputB share their bytes (a message without a Message-ID gets a
\* generated one); InputC is another message.
InputA == [ message_id |-> "a", content_hash |-> "h1" ]
InputB == [ message_id |-> "b", content_hash |-> "h1" ]
InputC == [ message_id |-> "c", content_hash |-> "h2" ]
Inputs == { InputA, InputB, InputC }

\* The messages APPENDed to mailbox 1, one after the other, each in its own
\* committed transaction, before the behaviour starts.
Histories == { << >>, << InputA, InputB >> }

\* options.PreservedUID / options.PreservedUIDValidity; Nil is the nil pointer.
Nil == 0
Preserved ==
    { [ uid |-> Nil, uid_validity |-> Nil ],
      [ uid |-> 1, uid_validity |-> Nil ],
      [ uid |-> 3, uid_validity |-> 1 ] }

\* The UID lists handed to CopyMessages.
CopyUIDSets == {{1}, {1, 2}, {2, 3}}

VARIABLES
    mailboxes,          \* committed rows of table mailboxes: highest_uid, uid_validity
    mbox_lock,          \* mailbox id -> transaction holding the row lock of that row
    messages,           \* rows of table messages, each with xmin
    message_contents,   \* rows of table message_contents, each with xmin
    pending_uploads,    \* rows of table pending_uploads, each with xmin
    message_sequences,  \* committed rows of table message_sequences
    advisory_lock,      \* mailbox id -> transaction holding pg_advisory_xact_lock(id)
    messages_id_seq,    \* sequence behind messages.id
    messages_modseq,    \* sequence messages_modseq
    tx,                 \* transaction -> the operation it runs and its local variables
    nops                \* operations begun so far

dbvars ==
    << mailboxes, mbox_lock, messages, message_contents, pending_uploads,
       message_sequences, advisory_lock, messages_id_seq, messages_modseq,
       tx, nops >>

\* The ManageSieve script store (table sieve_scripts) and its transactions.
VARIABLES
    sieve_scripts,      \* committed rows of table sieve_scripts
    sieve_lock,         \* script id -> transaction holding the row lock of that row
    sieve_tx,           \* transaction -> the script operation it runs
    sieve_id_seq,       \* sequence behind sieve_scripts.id
    sieve_nops          \* script operations begun so far

sievevars == << sieve_scripts, sieve_lock, sieve_tx, sieve_id_seq, sieve_nops >>

\* One ManageSieve session (ManageSieveSession) and the server it belongs to.
VARIABLES
    session,            \* the fields of the ManageSieveSession
    server,             \* the server's connection counters
    last,               \* the command handled last: what it did and answered
    ncommands           \* commands handled so far

sessvars == << session, server, last, ncommands >>

\* One ConnectionLimiter and the goroutines that call Accept and the release
\* functions it returned.
VARIABLES
    currentTotal,       \* cl.currentTotal
    perIPConnections,   \* cl.perIPConnections: IP -> counter, Nil without entry
    ipCounters,         \* the atomic.Int64 counters allocated for the map
    accepting,          \* goroutine -> its position in Accept / release and its locals
    naccepts            \* Accept calls begun so far

limvars == << currentTotal, perIPConnections, ipCounters, accepting, naccepts >>

\* One POP3 session (POP3Session) and what its last XCLIENT was answered.
VARIABLES
    pop,                \* the session: limiter, connection, RemoteIP, ProxyIP, ForwardingParams
    pop_last,           \* the last XCLIENT: its arguments and its answer
    npop                \* XCLIENT commands handled so far

popvars == << pop, pop_last, npop >>

\* The HTTP pre-lookup client: its circuit breaker and the goroutines that
\* call LookupUserRoute.
VARIABLES
    breaker,            \* state, counts of the generation, time left open
    lookup,             \* goroutine -> its lookup: position, outcome, result
    nlookups            \* lookups begun so far

prevars == << breaker, lookup, nlookups >>

\* The HTTP pre-lookup cache (prelookupCache).
VARIABLES
    entries,            \* c.entries: key -> cacheEntry, NoEntry without entry
    now,                \* the clock read by time.Now()
    cache_last,         \* the last call of the cache: its arguments and its result
    lastUsed,           \* key -> the call that stored or served its entry last
    ncache              \* Set, Get and cleanup calls so far

cachevars == << entries, now, cache_last, lastUsed, ncache >>

\* The admin HTTP API server.
VARIABLES
    admin,              \* the Server: apiKey, allowedHosts, the objects its cache holds
    admin_last,         \* the last request: what it carried, what ran, the answer
    nadmin              \* requests served so far

adminvars == << admin, admin_last, nadmin >>

\* The IMAP SEARCH command with RETURN options (ESEARCH).
VARIABLES
    selected,           \* the messages of the selected mailbox: uid, flags
    search_last,        \* the last search: the command, the response, what the client parsed
    nsearch             \* searches so far

searchvars == << selected, search_last, nsearch >>

\* The stores and the ManageSieve session.
corevars == << dbvars, sievevars, sessvars >>

\* The components beside the stores and the ManageSieve session.
proxyvars == << limvars, popvars, prevars, cachevars, adminvars, searchvars >>

\* The variables the message store's operations leave alone.
nondbvars == << sievevars, sessvars, proxyvars >>

\* The variables the script store's operations leave alone.
nonsievevars == << dbvars, sessvars, proxyvars >>

\* The variables the session's commands leave alone.
nonsessvars == << dbvars, sieve_lock, sieve_tx, sieve_nops, proxyvars >>

\* The variables the connection limiter leaves alone.
nonlimvars == << corevars, popvars, prevars, cachevars, adminvars, searchvars >>

\* The variables the POP3 session leaves alone.
nonpopvars == << corevars, limvars, prevars, cachevars, adminvars, searchvars >>

\* The variables the pre-lookup client leaves alone.
nonprevars == << corevars, limvars, popvars, cachevars, adminvars, searchvars >>

\* The variables the pre-lookup cache leaves alone.
noncachevars == << corevars, limvars, popvars, prevars, adminvars, searchvars >>

\* The variables the admin API leaves alone.
nonadminvars == << corevars, limvars, popvars, prevars, cachevars, searchvars >>

\* The variables the search leaves alone.
nonsearchvars == << corevars, limvars, popvars, prevars, cachevars, adminvars >>

vars == << corevars, proxyvars >>

\* ----------------------------------------------------------------- helpers

Max(a, b) == IF a >= b THEN a ELSE b

Range(s) == { s[i] : i \in DOMAIN s }

Permutations1(n) ==
    { f \in [1..n -> 1..n] : \A i, j \in 1..n : f[i] = f[j] => i = j }

\* expunged_at IS NULL.  expunged_at and expunged_modseq are set together.
Live(r) == r.expunged_modseq = 0

\* The rows of messages a statement of transaction t sees.
Visible(t) == { r \in messages : r.xmin \in {NoTx, t} }

Committed == { r \in messages : r.xmin = NoTx }

NoOp ==
    [ kind |-> "none", account_id |-> 0, mailbox_id |-> 0, message_id |-> "",
      content_hash |-> "", puid |-> Nil, puidv |-> Nil,
      src_mailbox_id |-> 0, uids |-> {} ]

NoRet == [ err |-> "none", id |-> 0, uid |-> 0, map |-> << >> ]

NoMbox == [ highest_uid |-> 0, uid_validity |-> 0 ]

IdleTx ==
    [ pc |-> "idle", op |-> NoOp, status |-> "none",
      highestUID |-> 0, uidToUse |-> 0, messageRowId |-> 0,
      messageIDs |-> << >>, sourceUIDsForMap |-> << >>, newUIDs |-> << >>,
      mbox |-> NoMbox, seqs |-> {}, ret |-> NoRet, empty0 |-> FALSE ]

\* ------------------------------------------------- script store: the data

SieveAccounts == {1, 2}

ScriptNames == {"x", "y"}

\* Script texts: SieveValid parses under the configured extensions,
\* SieveLong parses but is longer than maxScriptSize, SieveBroken does not
\* parse.
SieveValid == "keep;"
SieveLong == "if true { keep; }"
SieveBroken == "keep"
ScriptTexts == { SieveValid, SieveLong, SieveBroken }

\* A row of sieve_scripts.
ScriptRow(id, account_id, name, script, active) ==
    [ id |-> id, account_id |-> account_id, name |-> name, script |-> script,
      active |-> active ]

\* The scripts stored before the behaviour starts: two of account 1, one of
\* account 2, none active, or the first of account 1 active.
StoredScripts(active1) ==
    { ScriptRow(1, 1, "x", SieveValid, active1),
      ScriptRow(2, 1, "y", SieveValid, FALSE),
      ScriptRow(3, 2, "x", SieveValid, FALSE) }

ScriptIds == 1..(Cardinality(StoredScripts(FALSE)) + MaxScriptOps)

NoScriptOp ==
    [ kind |-> "none", scriptID |-> 0, userID |-> 0, name |-> "", script |-> "",
      active |-> FALSE, found |-> FALSE ]

\* written: the row versions the transaction wrote; deleted: the ids of the
\* rows it deleted; targets: the rows its running UPDATE found.
IdleScriptTx ==
    [ pc |-> "idle", op |-> NoScriptOp, written |-> {}, deleted |-> {},
      targets |-> {}, err |-> "none", sawOpen |-> FALSE ]

\* The script store that the other components run beside: empty, unused.
SieveIdle ==
    /\ sieve_scripts = {}
    /\ sieve_lock = [ i \in ScriptIds |-> NoTx ]
    /\ sieve_tx = [ t \in Tx |-> IdleScriptTx ]
    /\ sieve_id_seq = 0
    /\ sieve_nops = 0

\* -------------------------------------------- ManageSieve session: the data

\* s.server.maxScriptSize, as configured.
maxScriptSize == 10

\* The accounts' addresses, and an address without an account.
Addresses == { "u1", "admin", "nobody" }

\* GetAccountIDByAddressWithRetry: the account id, NoAccount for an error.
NoAccount == 0
AccountOf(address) ==
    IF address = "u1" THEN 1 ELSE IF address = "admin" THEN 2 ELSE NoAccount

\* The password stored for an account's address.
PasswordOf(address) ==
    IF address = "u1" THEN "p1" ELSE IF address = "admin" THEN "p2" ELSE "none"

\* s.server.masterSASLUsername, s.server.masterSASLPassword, as configured.
masterSASLUsername == "admin"
masterSASLPassword == "pm"

Passwords == { "p1", "pm" }

\* The session when handleConnection starts: a plain TCP connection, counted
\* in totalConnections, not authenticated.  lockHeld: a release() of the
\* session's write lock is deferred in handleConnection.
NewSession ==
    [ running |-> TRUE, authenticated |-> FALSE, User |-> NoAccount,
      isTLS |-> FALSE, conn |-> "tcp", useMasterDB |-> FALSE,
      ctxErr |-> FALSE, lockHeld |-> FALSE, releaseConn |-> TRUE ]

NewServer == [ totalConnections |-> 1, authenticatedConnections |-> 0 ]

\* What a command did: its answers in order, whether an acquisition of the
\* session lock timed out in it, whether the rate-limit check was made and
\* passed, whose password was verified, whether the master credential was
\* presented, the use-master flags of the reads it issued, whether a write
\* had been answered OK before it.
NoCommand ==
    [ command |-> "none", responses |-> << >>, timedOut |-> FALSE,
      rateLimitPassed |-> FALSE, passwordVerified |-> NoAccount,
      masterPresented |-> FALSE, reads |-> {}, wroteBefore |-> FALSE,
      wrote |-> FALSE, name |-> "", script |-> "", authzID |-> "",
      authnID |-> "", wasAuthenticated |-> FALSE, wasTLS |-> FALSE ]

\* The session that the other components run beside: not started.
SessionIdle ==
    /\ session = [ NewSession EXCEPT !.running = FALSE ]
    /\ server = NewServer
    /\ last = NoCommand
    /\ ncommands = 0

\* ------------------------------------------------- the connection limiter

\* Configuration of the limiter: total cap, per-IP cap, trusted networks.
maxConnections == 2
maxPerIP == 1

\* The goroutines that accept connections.
Goroutines == { "g1", "g2", "g3" }

\* Remote addresses: one outside and one inside the trusted networks.
RemoteIPs == { "198.51.100.7", "10.1.0.5" }
trustedNets == { "10.1.0.5" }

\* The counters that Accept can allocate.
CounterIds == 1..MaxAccepts

\* A goroutine that is not in Accept and holds no connection.
NotAccepting ==
    [ pc |-> "idle", ip |-> "", seen |-> Nil, ipCounter |-> Nil,
      isTrusted |-> FALSE, err |-> "nil" ]

\* The limiter that the other components run beside: no connection.
LimiterIdle ==
    /\ currentTotal = 0
    /\ perIPConnections = [ ip \in RemoteIPs |-> Nil ]
    /\ ipCounters = [ c \in CounterIds |-> 0 ]
    /\ accepting = [ g \in Goroutines |-> NotAccepting ]
    /\ naccepts = 0

\* ------------------------------------------------------ the POP3 session

\* The client behind a proxy, as a PROXY header or an XCLIENT names it.
ClientIP == "203.0.113.9"

\* s.ForwardingParams = nil
NoForwardingParams ==
    [ set |-> FALSE, OriginatingIP |-> "", ProxyTTL |-> 0, proxySourceIP |-> "" ]

\* The arguments of an XCLIENT: whether ParsePOP3XCLIENT and
\* ValidateForwarding accept them, and the parameters they carry;
\* proxySourceIP is Variables["proxy-source-ip"], "" when absent.
XclientArgs ==
    [ parses : BOOLEAN, valid : BOOLEAN, OriginatingIP : { "", ClientIP },
      ProxyTTL : 0..1, proxySourceIP : { "" } \cup RemoteIPs ]

NoXclient ==
    [ args |-> [ parses |-> FALSE, valid |-> FALSE, OriginatingIP |-> "",
                 ProxyTTL |-> 0, proxySourceIP |-> "" ],
      response |-> "" ]

\* A session accepted from remoteAddr; proxyIP is the proxy named by a PROXY
\* header, "" without one.
NewPOP3Session(limiter, remoteAddr, proxyIP) ==
    [ limiter |-> limiter, remoteAddr |-> remoteAddr,
      RemoteIP |-> IF proxyIP = "" THEN remoteAddr ELSE ClientIP,
      ProxyIP |-> proxyIP, ForwardingParams |-> NoForwardingParams ]

\* The POP3 session that the other components run beside.
PopIdle ==
    /\ pop = NewPOP3Session(FALSE, "10.1.0.5", "")
    /\ pop_last = NoXclient
    /\ npop = 0

\* --------------------------------------------------- the pre-lookup client

\* Circuit breaker settings: calls in the window, failures in ten calls that
\* open it, time it stays open, probes let through in half-open.
breakerWindow == 5
breakerFailuresInTen == 6
breakerTimeout == 2
breakerMaxRequests == 1

\* The goroutines that look users up.
Lookers == { "l1", "l2" }

\* What the endpoint answers to one request; "network" is no answer.
HTTPOutcomes == { "200", "400", "404", "500", "503", "network" }

NewBreaker ==
    [ state |-> "closed", generation |-> 0, requests |-> 0, failures |-> 0,
      successes |-> 0, openFor |-> 0 ]

NoLookup ==
    [ pc |-> "idle", generation |-> 0, admitted |-> "", outcome |-> "",
      authResult |-> "", err |-> "" ]

\* The pre-lookup client that the other components run beside.
PrelookupIdle ==
    /\ breaker = NewBreaker
    /\ lookup = [ l \in Lookers |-> NoLookup ]
    /\ nlookups = 0

\* ------------------------------------------------ the pre-lookup cache

\* The configuration passed to newPrelookupCache, in ticks of the clock.
positiveTTL == 2
negativeTTL == 1
maxSize == 2

\* The keys and results the callers store; Set and Get take any string as key,
\* the empty one included.
CacheKeys == { "", "a@example.com", "b@example.com" }
AuthResults == { "AuthSuccess", "AuthUserNotFound", "AuthFailed" }
Infos == { "backend1" }

\* No entry under a key of c.entries.
NoEntry == [ info |-> "nil", authResult |-> "none", expiresAt |-> 0,
             isNegative |-> FALSE, storedAt |-> 0 ]

\* No call of the cache yet.
NoCacheCall == [ op |-> "none", key |-> "", info |-> "nil", authResult |-> "none",
                 found |-> FALSE, entry |-> NoEntry, at |-> 0, evicted |-> "" ]

\* newPrelookupCache: an empty map.
CacheIdle ==
    /\ entries = [ k \in CacheKeys |-> NoEntry ]
    /\ now = 0
    /\ cache_last = NoCacheCall
    /\ lastUsed = [ k \in CacheKeys |-> 0 ]
    /\ ncache = 0

\* ------------------------------------------------ the admin HTTP API

\* An Authorization header is a string, modelled as a sequence of pieces
\* ("Bearer", "BEARER", "Basic", " ", "s3cret", "wrong"); the empty sequence
\* is the header not sent.
Headers ==
    { << >>,
      << "s3cret" >>,
      << "Bearer" >>,
      << "Bearer", "s3cret" >>,
      << "Bearer", " " >>,
      << "Bearer", " ", "s3cret" >>,
      << "BEARER", " ", "s3cret" >>,
      << "Bearer", " ", "wrong" >>,
      << "Bearer", " ", "s3cret", "wrong" >>,
      << "Bearer", " ", " ", "s3cret" >>,
      << "Bearer", " ", "s3cret", " ", "wrong" >>,
      << " ", "Bearer", " ", "s3cret" >>,
      << "Basic", " ", "s3cret" >>,
      << "wrong", " ", "Bearer", " ", "s3cret" >> }

\* options.APIKey: New refuses the empty one.
apiKey == << "s3cret" >>

\* The addresses requests come from, and the settings of options.AllowedHosts.
AdminClients == { "192.0.2.10", "203.0.113.9" }
AllowedHostsSettings == { {}, { "192.0.2.10" } }

\* The routes requested, each with the method it is registered for; the last
\* one is registered nowhere.
AdminRoutes == { "GET /admin/cache/stats", "POST /admin/cache/purge",
                 "GET /admin/nowhere" }

\* The objects the server's cache holds when the server starts.
CachedObjects == { "object1", "object2" }

\* No request served yet.
NoAdminRequest == [ authHeader |-> << >>, clientIP |-> "", route |-> "",
                    status |-> "", message |-> "", logged |-> FALSE,
                    handler |-> "" ]

\* New: a server with an API key, before its first request.
NewAdminServer(allowedHosts) ==
    [ apiKey |-> apiKey, allowedHosts |-> allowedHosts, cache |-> CachedObjects ]

AdminIdle ==
    /\ admin = NewAdminServer({})
    /\ admin_last = NoAdminRequest
    /\ nadmin = 0

\* ------------------------------------------------ IMAP SEARCH and ESEARCH

\* The messages a selected mailbox may hold, in order of their UIDs.
SearchMessages ==
    { [ uid |-> "uid3", seq |-> "1", flags |-> { "\\Seen" } ],
      [ uid |-> "uid7", seq |-> "2", flags |-> { "\\Seen", "\\Flagged" } ] }

\* The mailboxes searched: empty, the first message, both messages.
SearchMailboxes ==
    { {}, { m \in SearchMessages : m.seq = "1" }, SearchMessages }

\* The search keys: a UID set, a sequence set, a flag.
SearchCriteria ==
    { [ key |-> "UID", set |-> { "uid99999" } ],
      [ key |-> "UID", set |-> { "uid3", "uid7" } ],
      [ key |-> "SEQ", set |-> { "99999" } ],
      [ key |-> "SEQ", set |-> { "1" } ],
      [ key |-> "FLAG", set |-> { "\\Flagged" } ],
      [ key |-> "FLAG", set |-> { "\\Seen" } ] }

\* The RETURN options; without RETURN the search is a standard one.
ReturnOptions == { "MIN", "MAX", "ALL", "COUNT" }

\* The order of message numbers: UIDs and sequence numbers ascend together.
NumberOrder == << "1", "2", "uid3", "uid7" >>

\* What SearchData holds before a response is parsed.
NoSearchData == [ ok |-> TRUE, UID |-> FALSE, Min |-> "0", Max |-> "0",
                  All |-> {}, Count |-> "0" ]

\* No search yet.
NoSearch == [ uid |-> FALSE, criteria |-> [ key |-> "", set |-> {} ],
              return |-> {}, esearch |-> FALSE, matched |-> {},
              response |-> << >>, data |-> NoSearchData ]

SearchIdle ==
    /\ selected = {}
    /\ search_last = NoSearch
    /\ nsearch = 0

\* The proxy side is idle.
ProxyIdle == LimiterIdle /\ PopIdle /\ PrelookupIdle /\ CacheIdle /\ AdminIdle /\ SearchIdle

\* ------------------------------------------------------- the trigger (SQL)

\* Faulty variant of SequenceRows: the rebuild without WHERE ... expunged_at IS NULL.
SequenceRows_AllRows(m, rows) ==
    LET all == { r \in rows : r.mailbox_id = m }
    IN  { [ mailbox_id |-> m, uid |-> r.uid,
            seqnum |-> Cardinality({ q \in all : q.uid <= r.uid }) ] : r \in all }

\* ROW_NUMBER() OVER (ORDER BY m.uid) over the live rows of mailbox m among rows.
SequenceRows(m, rows) ==
    LET live == { r \in rows : r.mailbox_id = m /\ Live(r) }
    IN  { [ mailbox_id |-> m, uid |-> r.uid,
            seqnum |-> Cardinality({ q \in live : q.uid <= r.uid }) ] : r \in live }

\* Faulty variant of SequencesKeyViolated: message_sequences without its primary key.
SequencesKeyViolated_NoKey(m, rows) == FALSE

\* PRIMARY KEY (mailbox_id, uid) of message_sequences: the rebuild's INSERT
\* fails when two live rows of the mailbox carry one uid.
SequencesKeyViolated(m, rows) ==
    \E r, q \in rows :
        /\ r # q
        /\ r.mailbox_id = m /\ q.mailbox_id = m
        /\ Live(r) /\ Live(q)
        /\ r.uid = q.uid

\* PERFORM pg_advisory_xact_lock(v_mailbox_id): waits while another
\* transaction holds the lock.
AdvisoryLockFree(t, m) == advisory_lock[m] \in {NoTx, t}

\* ------------------------------------------------ PostgreSQL error handling

\* Faulty variant of StatusAfterError: an error undoes the statement alone, as under a
\* savepoint, and the transaction goes on.
StatusAfterError_Active == "active"

\* The state of a transaction after one of its statements raised an error.
StatusAfterError == "aborted"

\* ERROR 25P02: a statement sent in an aborted transaction is refused.
StatementRefused(status) == status = "aborted"

\* ------------------------------------------------------------------- Init

\* The rows the appends of history h left in mailbox 1: the i-th got id, uid
\* and created_modseq i, and is not uploaded yet.
HistoryRows(h) ==
    { [ id |-> i, account_id |-> 1, mailbox_id |-> 1, uid |-> i,
        message_id |-> h[i].message_id, content_hash |-> h[i].content_hash,
        uploaded |-> FALSE, created_modseq |-> i, expunged_modseq |-> 0,
        xmin |-> NoTx ] : i \in DOMAIN h }

DBInitAfter(h) ==
        /\ mailboxes = [ m \in MailboxIds |->
                           [ highest_uid |-> IF m = 1 THEN Len(h) ELSE 0,
                             uid_validity |-> 2 ] ]
        /\ mbox_lock = [ m \in MailboxIds |-> NoTx ]
        /\ messages = HistoryRows(h)
        /\ message_contents =
               { [ content_hash |-> r.content_hash, xmin |-> NoTx ] : r \in HistoryRows(h) }
        /\ pending_uploads =
               { [ content_hash |-> r.content_hash, account_id |-> r.account_id,
                   xmin |-> NoTx ] : r \in HistoryRows(h) }
        /\ message_sequences = SequenceRows(1, HistoryRows(h))
        /\ advisory_lock = [ m \in MailboxIds |-> NoTx ]
        /\ messages_id_seq = Len(h)
        /\ messages_modseq = Len(h)
        /\ tx = [ t \in Tx |-> IdleTx ]
        /\ nops = 0

\* The message store that the other components run beside: empty, unused.
DBIdle == DBInitAfter(<< >>)

\* The stores and the ManageSieve session are idle.
CoreIdle == DBIdle /\ SieveIdle /\ SessionIdle

DBInit ==
    /\ \E h \in Histories : DBInitAfter(h)
    /\ SieveIdle
    /\ SessionIdle
    /\ ProxyIdle

\* ---------------------------------------------------------- transactions

\* COMMIT: the transaction's rows become visible, its version of the mailbox
\* rows and of the sequence table replaces the committed one, its locks go.
CommitTx(t) ==
    /\ mailboxes' = [ m \in MailboxIds |->
                        IF mbox_lock[m] = t THEN tx[t].mbox ELSE mailboxes[m] ]
    /\ messages' = { [ r EXCEPT !.xmin = NoTx ] : r \in Visible(t) }
                      \cup { r \in messages : r.xmin \notin {NoTx, t} }
    /\ message_contents' =
           { [ c EXCEPT !.xmin = IF c.xmin = t THEN NoTx ELSE c.xmin ] :
               c \in message_contents }
    /\ pending_uploads' =
           { [ p EXCEPT !.xmin = IF p.xmin = t THEN NoTx ELSE p.xmin ] :
               p \in pending_uploads }
    /\ message_sequences' =
           { s \in message_sequences : advisory_lock[s.mailbox_id] # t }
              \cup tx[t].seqs

\* ROLLBACK: everything the transaction wrote is dropped.
RollbackTx(t) ==
    /\ mailboxes' = mailboxes
    /\ messages' = { r \in messages : r.xmin # t }
    /\ message_contents' = { c \in message_contents : c.xmin # t }
    /\ pending_uploads' = { p \in pending_uploads : p.xmin # t }
    /\ message_sequences' = message_sequences

\* The caller's end of the transaction: it commits when the operation
\* returned no error and rolls back (defer tx.Rollback) when it returned one.
\* COMMIT of an aborted transaction is a rollback.
EndTx(t) ==
    /\ tx[t].pc = "ret"
    /\ IF tx[t].ret.err = "nil" /\ tx[t].status = "active"
         THEN CommitTx(t)
         ELSE RollbackTx(t)
    /\ mbox_lock' = [ m \in MailboxIds |-> IF mbox_lock[m] = t THEN NoTx ELSE mbox_lock[m] ]
    /\ advisory_lock' =
           [ m \in MailboxIds |-> IF advisory_lock[m] = t THEN NoTx ELSE advisory_lock[m] ]
    /\ tx' = [ tx EXCEPT ![t] =
                 [ IdleTx EXCEPT !.pc = "done", !.op = tx[t].op, !.ret = tx[t].ret,
                                 !.empty0 = tx[t].empty0,
                                 !.status = IF tx[t].ret.err = "nil" /\ tx[t].status = "active"
                                              THEN "committed" ELSE "rolledback" ] ]
    /\ UNCHANGED << messages_id_seq, messages_modseq, nops, nondbvars >>

\* ------------------------------- InsertMessage / InsertMessageFromImporter

\* Faulty variant of MailboxRowLockFree: an UPDATE that does not wait for the row lock.
MailboxRowLockFree_NoWait(t, m) == TRUE

\* UPDATE mailboxes ... waits for the row lock of the mailbox row.
MailboxRowLockFree(t, m) == mbox_lock[m] \in {NoTx, t}

\* Faulty variants of PreservedHighestUID: SET highest_uid = $2, and no UPDATE at all.
PreservedHighestUID_Assign(highest_uid, uid) == uid

PreservedHighestUID_Keep(highest_uid, uid) == highest_uid

\* SET highest_uid = GREATEST(highest_uid, $2)
PreservedHighestUID(highest_uid, uid) == Max(highest_uid, uid)

\* SET highest_uid = highest_uid + 1
NextHighestUID(highest_uid) == highest_uid + 1

\* The mailbox has no message and has given out no UID, as far as committed.
EmptyMailbox(m) ==
    /\ mailboxes[m].highest_uid = 0
    /\ \A r \in Committed : r.mailbox_id # m

\* A transaction is begun for InsertMessage (kind "insert": IMAP APPEND, LMTP
\* delivery) or InsertMessageFromImporter (kind "import").  Message-IDs are
\* non-empty and valid UTF-8, so that SanitizeUTF8 leaves them as they are.
BeginInsert(t) ==
    /\ tx[t].pc \in {"idle", "done"}
    /\ nops < MaxOps
    /\ \E kind \in {"insert", "import"}, a \in Accounts, m \in MailboxIds,
          inp \in Inputs, p \in Preserved :
          /\ tx' = [ tx EXCEPT ![t] =
                       [ IdleTx EXCEPT
                           !.pc = "uid", !.status = "active",
                           !.empty0 = EmptyMailbox(m),
                           !.op = [ NoOp EXCEPT
                                      !.kind = kind, !.account_id = a, !.mailbox_id = m,
                                      !.message_id = inp.message_id,
                                      !.content_hash = inp.content_hash,
                                      !.puid = p.uid, !.puidv = p.uid_validity ] ] ]
    /\ nops' = nops + 1
    /\ UNCHANGED << mailboxes, mbox_lock, messages, message_contents, pending_uploads,
                    message_sequences, advisory_lock, messages_id_seq, messages_modseq, nondbvars >>

\* The UPDATE of mailboxes.highest_uid (and, with a preserved UIDVALIDITY, of
\* uid_validity: a second UPDATE of the row the transaction has locked).
UpdateHighestUID(t) ==
    LET op == tx[t].op
        m == op.mailbox_id
        row == IF mbox_lock[m] = t THEN tx[t].mbox ELSE mailboxes[m]
        highestUID == IF op.puid # Nil
                        THEN PreservedHighestUID(row.highest_uid, op.puid)
                        ELSE NextHighestUID(row.highest_uid)
        uidToUse == IF op.puid # Nil THEN op.puid ELSE highestUID
        uid_validity == IF op.puid # Nil /\ op.puidv # Nil
                          THEN op.puidv ELSE row.uid_validity
    IN  /\ tx[t].pc = "uid"
        /\ op.kind \in {"insert", "import"}
        /\ MailboxRowLockFree(t, m)
        /\ mbox_lock' = [ mbox_lock EXCEPT ![m] = t ]
        /\ tx' = [ tx EXCEPT ![t].pc = "row",
                             ![t].highestUID = highestUID,
                             ![t].uidToUse = uidToUse,
                             ![t].mbox = [ highest_uid |-> highestUID,
                                           uid_validity |-> uid_validity ] ]
        /\ UNCHANGED << mailboxes, messages, message_contents, pending_uploads,
                        message_sequences, advisory_lock, messages_id_seq,
                        messages_modseq, nops, nondbvars >>

\* UNIQUE (message_id, mailbox_id), constraint messages_message_id_mailbox_id_key:
\* a table constraint, which covers expunged rows too.
MessageIDKeyViolated(t, m, message_id) ==
    \E r \in Visible(t) : r.mailbox_id = m /\ r.message_id = message_id

\* SELECT id, uid FROM messages WHERE account_id = $1 AND mailbox_id = $2 AND
\* message_id = $3 AND expunged_at IS NULL, sent after the INSERT failed.
QueryExisting(t, status, op) ==
    LET found == { r \in Visible(t) :
                     /\ r.account_id = op.account_id
                     /\ r.mailbox_id = op.mailbox_id
                     /\ r.message_id = op.message_id
                     /\ Live(r) }
    IN  IF StatementRefused(status) THEN [ queryErr |-> "error", id |-> 0, uid |-> 0 ]
        ELSE IF found = {} THEN [ queryErr |-> "ErrNoRows", id |-> 0, uid |-> 0 ]
        ELSE LET r == CHOOSE r \in found : TRUE
             IN  [ queryErr |-> "nil", id |-> r.id, uid |-> r.uid ]

\* What InsertMessage returns after the unique violation on the Message-ID.
DuplicateReturn(t, status, op) ==
    LET q == QueryExisting(t, status, op)
    IN  IF q.queryErr = "nil"
          THEN [ NoRet EXCEPT !.err = "nil", !.id = q.id, !.uid = q.uid ]
          ELSE [ NoRet EXCEPT !.err = "ErrDBUniqueViolation" ]

\* Faulty variant of CreatedModseq: the sequence's current value, without nextval().
CreatedModseq_Current(modseq) == modseq

\* nextval('messages_modseq') of the INSERT: the value the row gets.
CreatedModseq(modseq) == modseq + 1

\* INSERT INTO messages ... RETURNING id, with the trigger it fires, and the
\* handling of its error.
InsertMessageRow(t) ==
    LET op == tx[t].op
        m == op.mailbox_id
        row == [ id |-> messages_id_seq + 1,
                 account_id |-> op.account_id,
                 mailbox_id |-> m,
                 uid |-> tx[t].uidToUse,
                 message_id |-> op.message_id,
                 content_hash |-> op.content_hash,
                 uploaded |-> (op.kind = "import"),
                 created_modseq |-> CreatedModseq(messages_modseq),
                 expunged_modseq |-> 0,
                 xmin |-> t ]
        after == Visible(t) \cup {row}
    IN  /\ tx[t].pc = "row"
        /\ op.kind \in {"insert", "import"}
        /\ messages_id_seq' = messages_id_seq + 1
        /\ messages_modseq' = messages_modseq + 1
        /\ IF MessageIDKeyViolated(t, m, op.message_id)
             THEN /\ tx' = [ tx EXCEPT ![t].pc = "ret",
                                       ![t].status = StatusAfterError,
                                       ![t].ret = DuplicateReturn(t, StatusAfterError, op) ]
                  /\ UNCHANGED << messages, advisory_lock >>
             ELSE /\ AdvisoryLockFree(t, m)
                  /\ advisory_lock' = [ advisory_lock EXCEPT ![m] = t ]
                  /\ IF SequencesKeyViolated(m, after)
                       THEN /\ tx' = [ tx EXCEPT ![t].pc = "ret",
                                                 ![t].status = StatusAfterError,
                                                 ![t].ret = [ NoRet EXCEPT !.err = "ErrDBInsertFailed" ] ]
                            /\ UNCHANGED messages
                       ELSE /\ messages' = messages \cup {row}
                            /\ tx' = [ tx EXCEPT ![t].pc = "contents",
                                                 ![t].messageRowId = row.id,
                                                 ![t].seqs = SequenceRows(m, after) ]
        /\ UNCHANGED << mailboxes, mbox_lock, message_contents, pending_uploads,
                        message_sequences, nops, nondbvars >>

\* Faulty variant of ContentsConflict: an INSERT without ON CONFLICT on a table
\* without the key, which never meets a conflicting row.
ContentsConflict_None(rows, content_hash) == {}

\* The rows of message_contents that conflict with a new row for content_hash
\* (ON CONFLICT (content_hash)).
ContentsConflict(rows, content_hash) == { c \in rows : c.content_hash = content_hash }

\* INSERT INTO message_contents ... ON CONFLICT (content_hash) DO NOTHING.  It
\* waits while another open transaction has inserted the same key.
InsertMessageContents(t) ==
    LET op == tx[t].op
        same == ContentsConflict(message_contents, op.content_hash)
    IN  /\ tx[t].pc = "contents"
        /\ \A c \in same : c.xmin \in {NoTx, t}
        /\ message_contents' =
               IF same = {}
                 THEN message_contents \cup { [ content_hash |-> op.content_hash, xmin |-> t ] }
                 ELSE message_contents
        /\ tx' = IF op.kind = "import"
                   THEN [ tx EXCEPT ![t].pc = "ret",
                                    ![t].ret = [ NoRet EXCEPT !.err = "nil",
                                                              !.id = tx[t].messageRowId,
                                                              !.uid = tx[t].uidToUse ] ]
                   ELSE [ tx EXCEPT ![t].pc = "pending" ]
        /\ UNCHANGED << mailboxes, mbox_lock, messages, pending_uploads, message_sequences,
                        advisory_lock, messages_id_seq, messages_modseq, nops, nondbvars >>

\* INSERT INTO pending_uploads ... ON CONFLICT (content_hash, account_id) DO
\* NOTHING, and InsertMessage's return.  The caller passes an upload for the
\* message it inserts: upload.ContentHash and upload.AccountID are the
\* options' ContentHash and UserID.
InsertPendingUpload(t) ==
    LET op == tx[t].op
        same == { p \in pending_uploads :
                    p.content_hash = op.content_hash /\ p.account_id = op.account_id }
    IN  /\ tx[t].pc = "pending"
        /\ \A p \in same : p.xmin \in {NoTx, t}
        /\ pending_uploads' =
               IF same = {}
                 THEN pending_uploads \cup
                        { [ content_hash |-> op.content_hash,
                            account_id |-> op.account_id, xmin |-> t ] }
                 ELSE pending_uploads
        /\ tx' = [ tx EXCEPT ![t].pc = "ret",
                             ![t].ret = [ NoRet EXCEPT !.err = "nil",
                                                       !.id = tx[t].messageRowId,
                                                       !.uid = tx[t].highestUID ] ]
        /\ UNCHANGED << mailboxes, mbox_lock, messages, message_contents, message_sequences,
                        advisory_lock, messages_id_seq, messages_modseq, nops, nondbvars >>

\* ----------------------------------------------------------- CopyMessages

\* The rows of a set in ascending uid order (ORDER BY uid).
OrderByUid(rows) ==
    CHOOSE s \in [1..Cardinality(rows) -> rows] :
        /\ \A i, j \in DOMAIN s : i # j => s[i] # s[j]
        /\ \A i, j \in DOMAIN s :
              i < j => \/ s[i].uid < s[j].uid
                       \/ s[i].uid = s[j].uid /\ s[i].id < s[j].id

\* Faulty variant of NewUID: startUID := newHighestUID - numToCopy.
NewUID_OffByOne(newHighestUID, numToCopy, i) == (newHighestUID - numToCopy) + (i - 1)

\* startUID := newHighestUID - numToCopy + 1; newUID := startUID + int64(i)
\* for the i-th source row, i counted from 0 (here from 1).
NewUID(newHighestUID, numToCopy, i) == (newHighestUID - numToCopy + 1) + (i - 1)

\* messageUIDMap, filled in the order of the source rows.
MessageUIDMap(sourceUIDs, newUIDs) ==
    [ u \in Range(sourceUIDs) |->
        newUIDs[CHOOSE i \in DOMAIN sourceUIDs :
                   /\ sourceUIDs[i] = u
                   /\ \A j \in DOMAIN sourceUIDs : sourceUIDs[j] = u => j <= i] ]

\* A transaction is begun for CopyMessages; the function checks its mailboxes
\* and reads the live source rows:
\* SELECT id, uid FROM messages WHERE mailbox_id = $1 AND uid = ANY($2) AND
\* expunged_at IS NULL ORDER BY uid.
BeginCopy(t) ==
    /\ tx[t].pc \in {"idle", "done"}
    /\ nops < MaxOps
    /\ \E a \in Accounts, src \in MailboxIds, dst \in MailboxIds, uids \in CopyUIDSets :
          LET op == [ NoOp EXCEPT !.kind = "copy", !.account_id = a,
                                  !.src_mailbox_id = src, !.mailbox_id = dst,
                                  !.uids = uids ]
              rows == OrderByUid({ r \in Visible(t) :
                                     r.mailbox_id = src /\ r.uid \in uids /\ Live(r) })
              started == [ IdleTx EXCEPT !.op = op, !.status = "active",
                                         !.empty0 = EmptyMailbox(dst) ]
          IN  tx' = [ tx EXCEPT ![t] =
                        IF src = dst
                          THEN [ started EXCEPT !.pc = "ret",
                                                !.ret = [ NoRet EXCEPT !.err = "error" ] ]
                        ELSE IF Len(rows) = 0
                          THEN [ started EXCEPT !.pc = "ret",
                                                !.ret = [ NoRet EXCEPT !.err = "nil" ] ]
                        ELSE [ started EXCEPT
                                 !.pc = "copyuid",
                                 !.messageIDs = [ i \in DOMAIN rows |-> rows[i].id ],
                                 !.sourceUIDsForMap = [ i \in DOMAIN rows |-> rows[i].uid ] ] ]
    /\ nops' = nops + 1
    /\ UNCHANGED << mailboxes, mbox_lock, messages, message_contents, pending_uploads,
                    message_sequences, advisory_lock, messages_id_seq, messages_modseq, nondbvars >>

\* UPDATE mailboxes SET highest_uid = highest_uid + $1 ... RETURNING highest_uid,
\* and the new UIDs computed from it.
CopyUpdateHighestUID(t) ==
    LET op == tx[t].op
        m == op.mailbox_id
        row == IF mbox_lock[m] = t THEN tx[t].mbox ELSE mailboxes[m]
        numToCopy == Len(tx[t].messageIDs)
        newHighestUID == row.highest_uid + numToCopy
    IN  /\ tx[t].pc = "copyuid"
        /\ MailboxRowLockFree(t, m)
        /\ mbox_lock' = [ mbox_lock EXCEPT ![m] = t ]
        /\ tx' = [ tx EXCEPT ![t].pc = "copyrows",
                             ![t].highestUID = newHighestUID,
                             ![t].newUIDs = [ i \in 1..numToCopy |->
                                                NewUID(newHighestUID, numToCopy, i) ],
                             ![t].mbox = [ row EXCEPT !.highest_uid = newHighestUID ] ]
        /\ UNCHANGED << mailboxes, messages, message_contents, pending_uploads,
                        message_sequences, advisory_lock, messages_id_seq,
                        messages_modseq, nops, nondbvars >>

\* The batch INSERT INTO messages ... SELECT ... FROM messages m JOIN unnest(...)
\* ON m.id = d.message_id, its trigger, and CopyMessages' return.  The rows are
\* read as they are now; the order in which the SELECT yields them, and with
\* it the order of the nextval() calls, is not specified: ord is that order.
CopyInsertRows(t) ==
    LET op == tx[t].op
        m == op.mailbox_id
        n == Len(tx[t].messageIDs)
        found == { i \in 1..n : \E r \in Visible(t) : r.id = tx[t].messageIDs[i] }
        src(i) == CHOOSE r \in Visible(t) : r.id = tx[t].messageIDs[i]
        copies(ord) ==
            { [ id |-> messages_id_seq + ord[i],
                account_id |-> src(i).account_id,
                mailbox_id |-> m,
                uid |-> tx[t].newUIDs[i],
                message_id |-> src(i).message_id,
                content_hash |-> src(i).content_hash,
                uploaded |-> src(i).uploaded,
                created_modseq |-> CreatedModseq(messages_modseq + ord[i] - 1),
                expunged_modseq |-> 0,
                xmin |-> t ] : i \in found }
    IN  /\ tx[t].pc = "copyrows"
        /\ messages_id_seq' = messages_id_seq + n
        /\ messages_modseq' = messages_modseq + n
        /\ \E ord \in Permutations1(n) :
              LET new == copies(ord)
                  after == Visible(t) \cup new
              IN  IF \/ \E c \in new : MessageIDKeyViolated(t, m, c.message_id)
                     \/ \E c, d \in new : c # d /\ c.message_id = d.message_id
                    THEN /\ tx' = [ tx EXCEPT ![t].pc = "ret",
                                              ![t].status = StatusAfterError,
                                              ![t].ret = [ NoRet EXCEPT !.err = "error" ] ]
                         /\ UNCHANGED << messages, advisory_lock >>
                    ELSE /\ AdvisoryLockFree(t, m)
                         /\ advisory_lock' = [ advisory_lock EXCEPT ![m] = t ]
                         /\ IF SequencesKeyViolated(m, after)
                              THEN /\ tx' = [ tx EXCEPT ![t].pc = "ret",
                                                        ![t].status = StatusAfterError,
                                                        ![t].ret = [ NoRet EXCEPT !.err = "error" ] ]
                                   /\ UNCHANGED messages
                              ELSE /\ messages' = messages \cup new
                                   /\ tx' = [ tx EXCEPT
                                                ![t].pc = "ret",
                                                ![t].seqs = SequenceRows(m, after),
                                                ![t].ret = [ NoRet EXCEPT
                                                               !.err = "nil",
                                                               !.map = MessageUIDMap(tx[t].sourceUIDsForMap,
                                                                                     tx[t].newUIDs) ] ]
        /\ UNCHANGED << mailboxes, mbox_lock, message_contents, pending_uploads,
                        message_sequences, nops, nondbvars >>

\* ------------------------------------------------------- expunge, uploader

\* EXPUNGE marks a live message expunged (expunged_at, expunged_modseq from
\* the shared counter) in a transaction of its own; the UPDATE fires the
\* trigger, which needs the advisory lock of the mailbox.
Expunge ==
    \E r \in Committed :
        /\ nops < MaxOps
        /\ nops' = nops + 1
        /\ Live(r)
        /\ advisory_lock[r.mailbox_id] = NoTx
        /\ messages_modseq' = messages_modseq + 1
        /\ messages' = (messages \ {r})
                          \cup { [ r EXCEPT !.expunged_modseq = messages_modseq + 1 ] }
        /\ message_sequences' =
               { s \in message_sequences : s.mailbox_id # r.mailbox_id }
                  \cup SequenceRows(r.mailbox_id, Committed \ {r})
        /\ UNCHANGED << mailboxes, mbox_lock, message_contents, pending_uploads,
                        advisory_lock, messages_id_seq, tx, nondbvars >>

\* The uploader's finalize step for one pending upload, after the S3 write
\* succeeded: it sets uploaded = true on the messages of that content hash
\* and account, then deletes the pending row, in one transaction.  The
\* UPDATE of messages fires the trigger for every mailbox it touches.
CompleteUpload ==
    \E p \in pending_uploads :
        LET hit == { r \in Committed :
                       /\ r.content_hash = p.content_hash
                       /\ r.account_id = p.account_id
                       /\ ~r.uploaded }
            rest == messages \ hit
            done == { [ r EXCEPT !.uploaded = TRUE ] : r \in hit }
            touched == { r.mailbox_id : r \in hit }
        IN  /\ p.xmin = NoTx
            /\ nops < MaxOps
            /\ nops' = nops + 1
            /\ \A m \in touched : advisory_lock[m] = NoTx
            /\ messages' = rest \cup done
            /\ pending_uploads' = pending_uploads \ {p}
            /\ message_sequences' =
                   { s \in message_sequences : s.mailbox_id \notin touched }
                      \cup UNION { SequenceRows(m, (Committed \ hit) \cup done) : m \in touched }
            /\ UNCHANGED << mailboxes, mbox_lock, message_contents, advisory_lock,
                            messages_id_seq, messages_modseq, tx, nondbvars >>

\* ------------------------------------------------------------------ Next

DBNext ==
    \/ \E t \in Tx :
        \/ BeginInsert(t)
        \/ UpdateHighestUID(t)
        \/ InsertMessageRow(t)
        \/ InsertMessageContents(t)
        \/ InsertPendingUpload(t)
        \/ BeginCopy(t)
        \/ CopyUpdateHighestUID(t)
        \/ CopyInsertRows(t)
        \/ EndTx(t)
    \/ Expunge
    \/ CompleteUpload

DBSpec == DBInit /\ [][DBNext]_vars

\* ================================================================ claims

\* What an observer reads: the committed rows, or, inside transaction t, the
\* rows t sees and t's own version of a mailbox row it has updated.
Observers == Tx \cup {NoTx}

ObservedMessages(o) == IF o = NoTx THEN Committed ELSE Visible(o)

ObservedHighestUID(o, m) ==
    IF o # NoTx /\ mbox_lock[m] = o THEN tx[o].mbox.highest_uid
    ELSE mailboxes[m].highest_uid

\* C1: for every mailbox the committed highest_uid never decreases, whatever
\* InsertMessage, InsertMessageFromImporter and CopyMessages transactions
\* commit or roll back, in whatever interleaving.
C1_HighestUIDNeverDecreases ==
    [][ \A m \in MailboxIds :
          mailboxes'[m].highest_uid >= mailboxes[m].highest_uid ]_dbvars

\* C1 witness: an insert with a preserved UID below the mailbox's highest_uid
\* has committed.
C1_Witness ==
    \E t \in Tx :
        /\ tx[t].pc = "done" /\ tx[t].status = "committed"
        /\ tx[t].op.puid # Nil
        /\ tx[t].op.puid < mailboxes[tx[t].op.mailbox_id].highest_uid

\* C2: at every observed instant no live message of a mailbox has a uid
\* above the mailbox's highest_uid.
C2_LiveUIDsWithinHighestUID ==
    \A o \in Observers : \A r \in ObservedMessages(o) :
        Live(r) => r.uid <= ObservedHighestUID(o, r.mailbox_id)

\* C2 witness: a committed live message carries a preserved UID that raised
\* highest_uid to itself.
C2_Witness ==
    \E r \in Committed :
        /\ Live(r)
        /\ r.uid = 3
        /\ mailboxes[r.mailbox_id].highest_uid = 3

LiveUIDs(m) == { r.uid : r \in { q \in Committed : q.mailbox_id = m /\ Live(q) } }

SequencesOf(m) == { s \in message_sequences : s.mailbox_id = m }

\* C3: at every observed instant the sequence table of a mailbox holds exactly
\* its live messages, numbered 1..N without gaps in ascending UID order;
\* expunged messages have no sequence number.
C3_SequencesAreLiveMessages ==
    \A m \in MailboxIds :
        /\ { s.uid : s \in SequencesOf(m) } = LiveUIDs(m)
        /\ { s.seqnum : s \in SequencesOf(m) } = 1..Cardinality(LiveUIDs(m))
        /\ Cardinality(SequencesOf(m)) = Cardinality(LiveUIDs(m))
        /\ \A s1, s2 \in SequencesOf(m) : s1.uid < s2.uid => s1.seqnum < s2.seqnum

\* C3 witness: a mailbox holds an expunged message and, after it in UID
\* order, a live one that a later transaction committed, numbered below its
\* uid because the expunged one is not counted.
C3_Witness ==
    \E r, q \in Committed :
        /\ r.mailbox_id = q.mailbox_id
        /\ ~Live(r) /\ Live(q)
        /\ r.uid < q.uid
        /\ q.created_modseq > r.expunged_modseq
        /\ \E s \in message_sequences :
              s.mailbox_id = q.mailbox_id /\ s.uid = q.uid /\ s.seqnum < q.uid

\* C4: within a mailbox at most one live message row exists for a uid, in the
\* committed rows and in the rows any transaction sees.
C4_OneLiveRowPerUID ==
    \A o \in Observers : \A r, q \in ObservedMessages(o) :
        (r.mailbox_id = q.mailbox_id /\ r.uid = q.uid /\ Live(r) /\ Live(q)) => r = q

\* C4 witness: an insert that carried a preserved UID that a live message of
\* the mailbox has was refused.
C4_Witness ==
    \E t \in Tx :
        /\ tx[t].pc = "done"
        /\ tx[t].op.puid # Nil
        /\ tx[t].ret.err = "ErrDBInsertFailed"
        /\ \E r \in Committed :
              r.mailbox_id = tx[t].op.mailbox_id /\ r.uid = tx[t].op.puid /\ Live(r)

PlainAppend(t) ==
    /\ tx[t].op.kind = "insert"
    /\ tx[t].op.puid = Nil

\* Two APPENDs of distinct messages into one mailbox, both begun while the
\* mailbox was empty as far as committed (so neither began after the other
\* had committed), both ended.
ConcurrentAppends(t1, t2) ==
    /\ t1 # t2
    /\ tx[t1].pc = "done" /\ tx[t2].pc = "done"
    /\ PlainAppend(t1) /\ PlainAppend(t2)
    /\ tx[t1].op.mailbox_id = tx[t2].op.mailbox_id
    /\ tx[t1].op.message_id # tx[t2].op.message_id
    /\ tx[t1].empty0 /\ tx[t2].empty0

\* C5: two concurrent APPENDs of distinct messages into an initially empty
\* mailbox both succeed, are given the UIDs 1 and 2 (never the same UID),
\* their rows are stored under these UIDs, and highest_uid is 2 once both
\* have committed.
C5_ConcurrentAppendsGetUIDs1And2 ==
    \A t1, t2 \in Tx :
        ConcurrentAppends(t1, t2) =>
            /\ tx[t1].ret.err = "nil" /\ tx[t2].ret.err = "nil"
            /\ tx[t1].status = "committed" /\ tx[t2].status = "committed"
            /\ { tx[t1].ret.uid, tx[t2].ret.uid } = {1, 2}
            /\ mailboxes[tx[t1].op.mailbox_id].highest_uid = 2
            /\ \A t \in {t1, t2} : \E r \in Committed :
                  /\ r.id = tx[t].ret.id
                  /\ r.uid = tx[t].ret.uid
                  /\ r.mailbox_id = tx[t].op.mailbox_id
                  /\ r.message_id = tx[t].op.message_id

\* C5 witness: two such APPENDs have ended.
C5_Witness == \E t1, t2 \in Tx : ConcurrentAppends(t1, t2)

\* CopyMessages has returned in transaction t without an error.
CopyReturned(t) ==
    /\ tx[t].pc = "ret"
    /\ tx[t].op.kind = "copy"
    /\ tx[t].ret.err = "nil"

\* C6: a COPY that found N live source messages returns a mapping with N
\* entries, from the source UIDs in ascending order to the N consecutive UIDs
\* after the destination's highest_uid, has stored its copies under them,
\* and its commit raises the destination's highest_uid by exactly N.
C6_CopyAdvancesByN ==
    [][ \A t \in Tx :
          (CopyReturned(t) /\ tx'[t].pc = "done") =>
              LET dst == tx[t].op.mailbox_id
                  n == Len(tx[t].messageIDs)
                  h0 == mailboxes[dst].highest_uid
                  srcUIDs == tx[t].sourceUIDsForMap
                  map == tx[t].ret.map
              IN  /\ mailboxes'[dst].highest_uid = h0 + n
                  /\ Len(srcUIDs) = n
                  /\ \A i, j \in 1..n : i < j => srcUIDs[i] < srcUIDs[j]
                  /\ DOMAIN map = Range(srcUIDs)
                  /\ Cardinality(DOMAIN map) = n
                  /\ \A i \in 1..n : map[srcUIDs[i]] = h0 + i
                  /\ \A i \in 1..n : \E r \in messages', q \in messages :
                        /\ r.xmin = NoTx /\ r.mailbox_id = dst /\ r.uid = h0 + i
                        /\ q.id = tx[t].messageIDs[i] /\ q.uid = srcUIDs[i]
                        /\ q.mailbox_id = tx[t].op.src_mailbox_id
                        /\ r.message_id = q.message_id
                        /\ r.content_hash = q.content_hash ]_dbvars

\* C6 witness: a COPY of two messages has committed.
C6_Witness ==
    \E t \in Tx :
        /\ tx[t].pc = "done" /\ tx[t].status = "committed"
        /\ tx[t].op.kind = "copy"
        /\ Cardinality(DOMAIN tx[t].ret.map) = 2

\* InsertMessage has returned in transaction t, and the mailbox holds a live
\* message r, not of t's making, with the Message-ID that t was to insert.
ReturnedOnDuplicate(t, r) ==
    /\ tx[t].pc = "ret"
    /\ tx[t].op.kind = "insert"
    /\ r \in Committed
    /\ Live(r)
    /\ r.account_id = tx[t].op.account_id
    /\ r.mailbox_id = tx[t].op.mailbox_id
    /\ r.message_id = tx[t].op.message_id

\* C7: an APPEND whose Message-ID is that of a live message of the mailbox
\* returns no error, but the row id and the UID of that message.
C7_DuplicateReturnsExisting ==
    \A t \in Tx : \A r \in messages :
        ReturnedOnDuplicate(t, r) =>
            /\ tx[t].ret.err = "nil"
            /\ tx[t].ret.id = r.id
            /\ tx[t].ret.uid = r.uid

\* An insert has returned in transaction t after it met a live message of
\* the mailbox with its Message-ID.
DuplicateInsert(t) ==
    /\ tx[t].op.kind \in {"insert", "import"}
    /\ \E r \in Committed :
          /\ Live(r)
          /\ r.mailbox_id = tx[t].op.mailbox_id
          /\ r.message_id = tx[t].op.message_id

\* C8: the end of the transaction of a duplicate APPEND or delivery changes
\* nothing that is committed: no message row is added, no UID is consumed
\* (highest_uid stays), no pending upload is added.
C8_DuplicateChangesNothing ==
    [][ \A t \in Tx :
          (tx[t].pc = "ret" /\ DuplicateInsert(t) /\ tx'[t].pc = "done") =>
              /\ { r \in messages' : r.xmin = NoTx } = Committed
              /\ mailboxes' = mailboxes
              /\ { p \in pending_uploads' : p.xmin = NoTx }
                    = { p \in pending_uploads : p.xmin = NoTx }
              /\ message_sequences' = message_sequences ]_dbvars

\* C8 witness: the transaction of a duplicate APPEND has ended, and the
\* mailbox holds the one message with that Message-ID.
C8_Witness ==
    \E t \in Tx :
        /\ tx[t].pc = "done"
        /\ tx[t].op.kind = "insert"
        /\ tx[t].ret.err # "none"
        /\ Cardinality({ r \in Committed :
                           /\ r.mailbox_id = tx[t].op.mailbox_id
                           /\ r.message_id = tx[t].op.message_id
                           /\ r.id # tx[t].ret.id }) = 1

\* The modseq values of the mutations of a row: its insert, its expunge.
Modseqs(r) == {r.created_modseq} \cup (IF Live(r) THEN {} ELSE {r.expunged_modseq})

C10_NotUploadedHasPendingUpload ==
    \A r \in Committed :
        ~r.uploaded =>
            \E p \in pending_uploads :
                /\ p.xmin = NoTx
                /\ p.content_hash = r.content_hash
                /\ p.account_id = r.account_id

\* C11: an InsertMessage transaction is all-or-nothing.  When the call returned
\* no error, its commit leaves the message row it inserted and a pending
\* upload for the content hash of that row committed; when it returned an
\* error, the end of the transaction leaves the committed messages, mailbox
\* rows (highest_uid) and pending uploads as they were.
C11_InsertIsAllOrNothing ==
    [][ \A t \in Tx :
          (tx[t].pc = "ret" /\ tx[t].op.kind = "insert" /\ tx'[t].pc = "done") =>
              IF tx[t].ret.err = "nil"
                THEN /\ \E r \in messages' :
                          /\ r.xmin = NoTx
                          /\ r.id = tx[t].ret.id
                          /\ r.mailbox_id = tx[t].op.mailbox_id
                          /\ r.message_id = tx[t].op.message_id
                     /\ \E p \in pending_uploads' :
                          /\ p.xmin = NoTx
                          /\ p.content_hash = tx[t].op.content_hash
                          /\ p.account_id = tx[t].op.account_id
                ELSE /\ { r \in messages' : r.xmin = NoTx } = Committed
                     /\ mailboxes' = mailboxes
                     /\ { p \in pending_uploads' : p.xmin = NoTx }
                           = { p \in pending_uploads : p.xmin = NoTx } ]_dbvars

\* Two InsertMessage calls of the same bytes whose transactions committed.
AppendedSameBytes(t1, t2) ==
    /\ t1 # t2
    /\ \A t \in {t1, t2} :
          /\ tx[t].pc = "done" /\ tx[t].status = "committed"
          /\ tx[t].op.kind = "insert"
    /\ tx[t1].op.content_hash = tx[t2].op.content_hash

\* C12: message_contents never holds two rows for one content hash, and after
\* two successful APPENDs of the same bytes it holds the one committed row
\* for their hash while each APPEND has a messages row of its own.
C12_OneContentRowPerHash ==
    /\ \A c, d \in message_contents : c.content_hash = d.content_hash => c = d
    /\ \A t1, t2 \in Tx :
          AppendedSameBytes(t1, t2) =>
              /\ \E c \in message_contents :
                    c.content_hash = tx[t1].op.content_hash /\ c.xmin = NoTx
              /\ tx[t1].ret.id # tx[t2].ret.id
              /\ \A t \in {t1, t2} : \E r \in Committed :
                    r.id = tx[t].ret.id /\ r.content_hash = tx[t].op.content_hash

\* C12 witness: two such APPENDs, into two mailboxes of a store that did not
\* hold their hash, have committed.
C12_Witness ==
    \E t1, t2 \in Tx :
        /\ AppendedSameBytes(t1, t2)
        /\ tx[t1].empty0 /\ tx[t2].empty0
        /\ tx[t1].op.mailbox_id # tx[t2].op.mailbox_id

\* C13: the committed uid_validity of a mailbox never gets smaller.
C13_UIDValidityNeverDecreases ==
    [][ \A m \in MailboxIds :
          mailboxes'[m].uid_validity >= mailboxes[m].uid_validity ]_dbvars

\* =========================================== script store (sieve_scripts)

\* The rows of sieve_scripts a statement of transaction t works on: the
\* committed rows, with t's own row versions in place of those it changed.
ScriptView(t) ==
    { r \in sieve_scripts :
        /\ r.id \notin sieve_tx[t].deleted
        /\ \A w \in sieve_tx[t].written : w.id # r.id }
      \cup sieve_tx[t].written

\* An UPDATE or DELETE of the row waits for its row lock.
ScriptRowLockFree(t, id) == sieve_lock[id] \in {NoTx, t}

\* The row versions of a transaction after it wrote the versions new.
WrittenAfter(t, new) ==
    { w \in sieve_tx[t].written : \A n \in new : n.id # w.id } \cup new

\* The database is as the scripts of ScriptInit say; no transaction is open.
ScriptInit ==
    /\ \E active1 \in BOOLEAN : sieve_scripts = StoredScripts(active1)
    /\ sieve_lock = [ i \in ScriptIds |-> NoTx ]
    /\ sieve_tx = [ t \in Tx |-> IdleScriptTx ]
    /\ sieve_id_seq = Cardinality(StoredScripts(FALSE))
    /\ sieve_nops = 0
    /\ DBIdle
    /\ SessionIdle
    /\ ProxyIdle

\* A transaction is begun (the ...WithRetry wrappers of the callers) for one
\* of CreateScript, UpdateScript, DeleteScript, SetScriptActive.  The script
\* id is one the caller looked up before, which may be gone by now; found:
\* the account has a committed script of that id when the transaction begins.
BeginScriptOp(t) ==
    /\ sieve_tx[t].pc \in {"idle", "done"}
    /\ sieve_nops < MaxScriptOps
    /\ sieve_nops' = sieve_nops + 1
    /\ \E kind \in {"create", "update", "delete", "setactive"},
          id \in 1..sieve_id_seq, a \in SieveAccounts, name \in ScriptNames,
          active \in BOOLEAN :
          /\ kind = "create" => id = 1
          /\ kind \in {"delete", "setactive"} => name = "x"
          /\ kind # "setactive" => active
          /\ sieve_tx' = [ sieve_tx EXCEPT ![t] =
                 [ IdleScriptTx EXCEPT
                     !.pc = IF kind = "setactive" /\ active THEN "scan"
                            ELSE IF kind = "setactive" THEN "activate" ELSE kind,
                     !.err = "nil",
                     !.sawOpen = \E u \in Tx \ {t} :
                                    /\ sieve_tx[u].pc \notin {"idle", "done"}
                                    /\ sieve_tx[u].op.kind = kind,
                     !.op = [ kind |-> kind,
                              scriptID |-> IF kind = "create" THEN 0 ELSE id,
                              userID |-> a, name |-> name, script |-> SieveValid,
                              active |-> active,
                              found |-> \E r \in sieve_scripts :
                                           r.id = id /\ r.account_id = a ] ] ]
    /\ UNCHANGED << sieve_scripts, sieve_lock, sieve_id_seq, nonsievevars >>

\* CreateScript: INSERT INTO sieve_scripts (account_id, name, script, active)
\* VALUES ($1, $2, $3, false) RETURNING ...
CreateScript(t) ==
    LET op == sieve_tx[t].op
        row == ScriptRow(sieve_id_seq + 1, op.userID, op.name, op.script, FALSE)
    IN  /\ sieve_tx[t].pc = "create"
        /\ sieve_id_seq' = sieve_id_seq + 1
        /\ sieve_tx' = [ sieve_tx EXCEPT ![t].pc = "ret",
                                         ![t].written = WrittenAfter(t, {row}) ]
        /\ UNCHANGED << sieve_scripts, sieve_lock, sieve_nops, nonsievevars >>

\* UpdateScript: UPDATE sieve_scripts SET name = $1, script = $2, updated_at =
\* now() WHERE id = $3 AND account_id = $4 RETURNING ...; Scan fails with no
\* row.
UpdateScript(t) ==
    LET op == sieve_tx[t].op
        hit == { r \in ScriptView(t) : r.id = op.scriptID /\ r.account_id = op.userID }
        new == { [ r EXCEPT !.name = op.name, !.script = op.script ] : r \in hit }
    IN  /\ sieve_tx[t].pc = "update"
        /\ ScriptRowLockFree(t, op.scriptID)
        /\ sieve_lock' = IF hit = {} THEN sieve_lock
                         ELSE [ sieve_lock EXCEPT ![op.scriptID] = t ]
        /\ sieve_tx' = [ sieve_tx EXCEPT
                           ![t].pc = "ret",
                           ![t].err = IF hit = {} THEN "ErrNoRows" ELSE "nil",
                           ![t].written = WrittenAfter(t, new) ]
        /\ UNCHANGED << sieve_scripts, sieve_id_seq, sieve_nops, nonsievevars >>

\* DeleteScript: DELETE FROM sieve_scripts WHERE id = $1 AND account_id = $2
DeleteScript(t) ==
    LET op == sieve_tx[t].op
        hit == { r \in ScriptView(t) : r.id = op.scriptID /\ r.account_id = op.userID }
    IN  /\ sieve_tx[t].pc = "delete"
        /\ ScriptRowLockFree(t, op.scriptID)
        /\ sieve_lock' = IF hit = {} THEN sieve_lock
                         ELSE [ sieve_lock EXCEPT ![op.scriptID] = t ]
        /\ sieve_tx' = [ sieve_tx EXCEPT
                           ![t].pc = "ret",
                           ![t].written = sieve_tx[t].written \ hit,
                           ![t].deleted = sieve_tx[t].deleted
                                             \cup { r.id : r \in hit } ]
        /\ UNCHANGED << sieve_scripts, sieve_id_seq, sieve_nops, nonsievevars >>

\* SetScriptActive with active = true, first statement: UPDATE sieve_scripts
\* SET active = false WHERE account_id = $1 AND active = true.  The statement
\* finds its rows in the snapshot taken when it starts.
DeactivateScan(t) ==
    LET op == sieve_tx[t].op
    IN  /\ sieve_tx[t].pc = "scan"
        /\ sieve_tx' = [ sieve_tx EXCEPT
                           ![t].pc = "deactivate",
                           ![t].targets = { r.id : r \in { q \in ScriptView(t) :
                                               q.account_id = op.userID /\ q.active } } ]
        /\ UNCHANGED << sieve_scripts, sieve_lock, sieve_id_seq, sieve_nops,
                        nonsievevars >>

\* The same statement, once the rows it found are not locked by another
\* transaction: it updates those of them whose newest version still matches
\* the WHERE clause (READ COMMITTED).
DeactivateOthers(t) ==
    LET op == sieve_tx[t].op
        hit == { r \in ScriptView(t) :
                   r.id \in sieve_tx[t].targets /\ r.account_id = op.userID /\ r.active }
        new == { [ r EXCEPT !.active = FALSE ] : r \in hit }
    IN  /\ sieve_tx[t].pc = "deactivate"
        /\ \A id \in sieve_tx[t].targets : ScriptRowLockFree(t, id)
        /\ sieve_lock' = [ i \in ScriptIds |->
                             IF \E r \in hit : r.id = i THEN t ELSE sieve_lock[i] ]
        /\ sieve_tx' = [ sieve_tx EXCEPT ![t].pc = "activate",
                                         ![t].written = WrittenAfter(t, new) ]
        /\ UNCHANGED << sieve_scripts, sieve_id_seq, sieve_nops, nonsievevars >>

\* Faulty variant of ActiveKeyViolated: sieve_scripts without the unique index.
ActiveKeyViolated_NoIndex(rows, row) == FALSE

\* The UNIQUE index on (account_id) of the rows with active = true: the new
\* row version conflicts with another active row of the account.
ActiveKeyViolated(rows, row) ==
    /\ row.active
    /\ \E r \in rows : r.id # row.id /\ r.account_id = row.account_id /\ r.active

\* Another transaction has an unfinished change of an index entry of the
\* account: it wrote an active row version, or changed or deleted a row
\* whose committed version is active.  The index check waits for its end.
ActiveKeyInDoubt(t, account_id, id) ==
    \E u \in Tx \ {t} :
        \/ \E w \in sieve_tx[u].written :
              w.id # id /\ w.account_id = account_id /\ w.active
        \/ \E r \in sieve_scripts :
              /\ r.id # id /\ r.account_id = account_id /\ r.active
              /\ \/ r.id \in sieve_tx[u].deleted
                 \/ \E w \in sieve_tx[u].written : w.id = r.id

\* SetScriptActive, last statement: UPDATE sieve_scripts SET active = $1,
\* updated_at = now() WHERE id = $2 AND account_id = $3.  An error of the
\* statement is SetScriptActive's error.
SetActiveRow(t) ==
    LET op == sieve_tx[t].op
        hit == { r \in ScriptView(t) : r.id = op.scriptID /\ r.account_id = op.userID }
        new == { [ r EXCEPT !.active = op.active ] : r \in hit }
        violated == \E n \in new : ActiveKeyViolated(ScriptView(t), n)
    IN  /\ sieve_tx[t].pc = "activate"
        /\ ScriptRowLockFree(t, op.scriptID)
        /\ (hit # {} /\ op.active) => ~ActiveKeyInDoubt(t, op.userID, op.scriptID)
        /\ sieve_lock' = IF hit = {} \/ violated THEN sieve_lock
                         ELSE [ sieve_lock EXCEPT ![op.scriptID] = t ]
        /\ sieve_tx' = [ sieve_tx EXCEPT
                           ![t].pc = "ret",
                           ![t].err = IF violated THEN "error" ELSE "nil",
                           ![t].written = IF violated THEN sieve_tx[t].written
                                          ELSE WrittenAfter(t, new) ]
        /\ UNCHANGED << sieve_scripts, sieve_id_seq, sieve_nops, nonsievevars >>

\* The end of the transaction: COMMIT when the operation returned no error,
\* ROLLBACK when it returned one.
EndScriptTx(t) ==
    /\ sieve_tx[t].pc = "ret"
    /\ sieve_scripts' =
           IF sieve_tx[t].err = "nil" THEN ScriptView(t) ELSE sieve_scripts
    /\ sieve_lock' = [ i \in ScriptIds |-> IF sieve_lock[i] = t THEN NoTx ELSE sieve_lock[i] ]
    /\ sieve_tx' = [ sieve_tx EXCEPT ![t] =
                       [ IdleScriptTx EXCEPT !.pc = "done", !.op = sieve_tx[t].op,
                                             !.err = sieve_tx[t].err,
                                             !.sawOpen = sieve_tx[t].sawOpen ] ]
    /\ UNCHANGED << sieve_id_seq, sieve_nops, nonsievevars >>

ScriptNext ==
    \E t \in Tx :
        \/ BeginScriptOp(t)
        \/ CreateScript(t)
        \/ UpdateScript(t)
        \/ DeleteScript(t)
        \/ DeactivateScan(t)
        \/ DeactivateOthers(t)
        \/ SetActiveRow(t)
        \/ EndScriptTx(t)

ScriptSpec == ScriptInit /\ [][ScriptNext]_vars

\* C14: in the committed rows of sieve_scripts, and in the rows any open
\* transaction works on, no account has two scripts with active = true.
C14_OneActiveScriptPerAccount ==
    \A rows \in {sieve_scripts} \cup { ScriptView(t) : t \in Tx } :
        \A r, q \in rows :
            (r.account_id = q.account_id /\ r.active /\ q.active) => r.id = q.id

\* C14 witness: two activations of different scripts of one account, the
\* second begun while the first was running, have ended, and one of these
\* scripts is the active one.
C14_Witness ==
    \E t1, t2 \in Tx :
        /\ t1 # t2
        /\ \A t \in {t1, t2} :
              /\ sieve_tx[t].pc = "done"
              /\ sieve_tx[t].op.kind = "setactive" /\ sieve_tx[t].op.active
        /\ sieve_tx[t2].sawOpen
        /\ sieve_tx[t1].op.userID = sieve_tx[t2].op.userID
        /\ sieve_tx[t1].op.scriptID # sieve_tx[t2].op.scriptID
        /\ \E r \in sieve_scripts :
              /\ r.active
              /\ r.account_id = sieve_tx[t1].op.userID
              /\ r.id \in { sieve_tx[t1].op.scriptID, sieve_tx[t2].op.scriptID }

\* =============================================== ManageSieve session

\* The session starts on the stored scripts; its account 1 script "x" may be
\* the active one.
SessionInit ==
    /\ session = NewSession
    /\ server = NewServer
    /\ last = NoCommand
    /\ ncommands = 0
    /\ \E active1 \in BOOLEAN : sieve_scripts = StoredScripts(active1)
    /\ sieve_lock = [ i \in ScriptIds |-> NoTx ]
    /\ sieve_tx = [ t \in Tx |-> IdleScriptTx ]
    /\ sieve_id_seq = Cardinality(StoredScripts(FALSE))
    /\ sieve_nops = 0
    /\ DBIdle
    /\ ProxyIdle

\* AcquireReadLockWithTimeout / AcquireWriteLockWithTimeout: whether the lock
\* was acquired within the timeout.  It is not while handleConnection holds
\* the write lock for a deferred release(); otherwise it is, unless another
\* holder keeps the lock for the length of the timeout.
AcquireOutcomes(lockHeld) == IF lockHeld THEN {FALSE} ELSE BOOLEAN

\* sieve.Load(scriptReader, options) returns no error.
Parses(content) == content \in { SieveValid, SieveLong }

\* The record of a command that has just been read.
Began(command) ==
    [ NoCommand EXCEPT !.command = command,
                       !.wroteBefore = last.wroteBefore \/ last.wrote,
                       !.wasAuthenticated = session.authenticated,
                       !.wasTLS = session.isTLS ]

\* sendResponse
Respond(rec, response) == [ rec EXCEPT !.responses = Append(@, response) ]

\* A lock acquisition of the command timed out.
TimedOut(rec, acquired) == [ rec EXCEPT !.timedOut = @ \/ ~acquired ]

\* The state after a command: session, server, stored scripts, id sequence,
\* record of the command.
Out(sess, srv, scripts, idseq, rec) ==
    [ session |-> sess, server |-> srv, scripts |-> scripts, idseq |-> idseq,
      last |-> rec ]

\* The command changed nothing but answered.
Stay(rec) == Out(session, server, sieve_scripts, sieve_id_seq, rec)

\* One command of the session has been handled with the outcome out.
Handled(out) ==
    /\ session' = out.session
    /\ server' = out.server
    /\ sieve_scripts' = out.scripts
    /\ sieve_id_seq' = out.idseq
    /\ last' = out.last
    /\ ncommands' = ncommands + 1
    /\ UNCHANGED nonsessvars

\* handleConnection is ready to read a command.
Reading == session.running /\ ncommands < MaxCommands

\* Close(): the counters, the connection, the limiter's release, and, with a
\* user, the session's authentication state and context.  It goes on when
\* its lock acquisition timed out.
Close(sess, srv) ==
    [ session |->
        IF sess.User # NoAccount
          THEN [ sess EXCEPT !.conn = "closed", !.releaseConn = FALSE,
                             !.User = NoAccount, !.authenticated = FALSE,
                             !.ctxErr = TRUE ]
          ELSE [ sess EXCEPT !.conn = "closed", !.releaseConn = FALSE ],
      server |->
        [ srv EXCEPT
            !.totalConnections = @ - 1,
            !.authenticatedConnections =
                IF sess.User # NoAccount /\ sess.authenticated THEN @ - 1 ELSE @ ] ]

\* handleConnection returns: the deferred release() calls run, then the
\* deferred s.Close().
Return(sess, srv) ==
    LET c == Close([ sess EXCEPT !.lockHeld = FALSE ], srv)
    IN  [ session |-> [ c.session EXCEPT !.running = FALSE ], server |-> c.server ]

\* case "LOGIN" of handleConnection.
LoginOutcome(address, password, limited, acquired) ==
    LET master == address = masterSASLUsername /\ password = masterSASLPassword
        userID == AccountOf(address)
        verified == ~master /\ userID # NoAccount /\ PasswordOf(address) = password
        rec == [ Began("LOGIN") EXCEPT
                   !.authnID = address,
                   !.rateLimitPassed = ~limited,
                   !.masterPresented = ~limited /\ master,
                   !.passwordVerified = IF ~limited /\ verified THEN userID ELSE NoAccount ]
    IN  IF limited
          THEN Stay(Respond(rec, "NO Too many authentication attempts. Please try again later."))
        ELSE IF (master /\ userID = NoAccount) \/ (~master /\ ~verified)
          THEN Stay(Respond(rec, "NO Authentication failed"))
        ELSE IF session.ctxErr
          THEN Stay(rec)
        ELSE IF ~acquired
          THEN Stay(Respond(TimedOut(rec, acquired), "NO Server busy, try again later"))
        ELSE Out([ session EXCEPT !.authenticated = TRUE, !.User = userID,
                                  !.lockHeld = TRUE ],
                 [ server EXCEPT !.authenticatedConnections = @ + 1 ],
                 sieve_scripts, sieve_id_seq,
                 Respond(rec, "OK Authenticated"))

Login ==
    /\ Reading
    /\ \E address \in Addresses \ {"nobody"}, password \in Passwords,
          limited \in BOOLEAN, acquired \in AcquireOutcomes(session.lockHeld) :
          Handled(LoginOutcome(address, password, limited, acquired))

\* The master SASL login of handleAuthenticate would check the password
\* against the target's.
Impersonating_PasswordChecked(authzID, authnID, password) ==
    /\ authnID = masterSASLUsername /\ password = masterSASLPassword
    /\ authzID # ""
    /\ AccountOf(authzID) # NoAccount
    /\ PasswordOf(authzID) = password

\* The master SASL login of handleAuthenticate: impersonating = true.
Impersonating(authzID, authnID, password) ==
    /\ authnID = masterSASLUsername /\ password = masterSASLPassword
    /\ authzID # ""
    /\ AccountOf(authzID) # NoAccount

\* Faulty variant of ProxyAuthentication: no request counts as one.
ProxyAuthentication_Never(authzID, authnID) == FALSE

\* handleAuthenticate: an authorization identity other than the
\* authentication identity asks for proxy authentication.
ProxyAuthentication(authzID, authnID) == authzID # "" /\ authzID # authnID

\* handleAuthenticate, for AUTHENTICATE PLAIN with a well-formed response.
AuthenticateOutcome(authzID, authnID, password, limited, acquired) ==
    LET master == authnID = masterSASLUsername /\ password = masterSASLPassword
        impersonating == Impersonating(authzID, authnID, password)
        verified == AccountOf(authnID) # NoAccount /\ PasswordOf(authnID) = password
        userID == IF impersonating THEN AccountOf(authzID) ELSE AccountOf(authnID)
        rec0 == [ Began("AUTHENTICATE") EXCEPT !.authzID = authzID,
                                               !.authnID = authnID,
                                               !.masterPresented = master ]
        rec == IF impersonating \/ master \/ ProxyAuthentication(authzID, authnID)
                 THEN rec0
                 ELSE [ rec0 EXCEPT
                          !.rateLimitPassed = ~limited,
                          !.passwordVerified =
                              IF ~limited /\ verified THEN userID ELSE NoAccount ]
    IN  IF master /\ authzID = ""
          THEN Stay(Respond(rec, "NO Master SASL login requires an authorization identity."))
        ELSE IF master /\ AccountOf(authzID) = NoAccount
          THEN Stay(Respond(rec, "NO Impersonation target user not found"))
        ELSE IF ~impersonating /\ ProxyAuthentication(authzID, authnID)
          THEN Stay(Respond(rec, "NO Proxy authentication not supported"))
        ELSE IF ~impersonating /\ limited
          THEN Stay(Respond(rec, "NO Too many authentication attempts. Please try again later."))
        ELSE IF ~impersonating /\ ~verified
          THEN Stay(Respond(rec, "NO Authentication failed"))
        ELSE IF session.ctxErr
          THEN Stay(rec)
        ELSE IF ~acquired
          THEN Stay(Respond(TimedOut(rec, acquired), "NO Server busy, try again later"))
        ELSE Out([ session EXCEPT !.authenticated = TRUE, !.User = userID ],
                 [ server EXCEPT !.authenticatedConnections = @ + 1 ],
                 sieve_scripts, sieve_id_seq,
                 Respond(rec, "OK Authenticated"))

handleAuthenticate ==
    /\ Reading
    /\ \E authzID \in {"", "u1", "admin", "nobody"}, authnID \in Addresses \ {"nobody"},
          password \in Passwords, limited \in BOOLEAN,
          acquired \in AcquireOutcomes(session.lockHeld) :
          Handled(AuthenticateOutcome(authzID, authnID, password, limited, acquired))

\* case "STARTTLS" of handleConnection, with useStartTLS and a tlsConfig.
StartTLSOutcome(handshake, acquired) ==
    LET rec == Began("STARTTLS")
        begun == Respond(rec, "OK Begin TLS negotiation")
    IN  IF session.isTLS
          THEN Stay(Respond(rec, "NO TLS already active"))
        ELSE IF ~handshake
          THEN Stay(Respond(begun, "NO TLS handshake failed"))
        ELSE IF session.ctxErr
          THEN LET r == Return(session, server)
               IN  Out(r.session, r.server, sieve_scripts, sieve_id_seq, begun)
        ELSE IF ~acquired
          THEN Stay(Respond(TimedOut(begun, acquired), "NO Server busy, try again later"))
        ELSE Out([ session EXCEPT !.conn = "tls", !.isTLS = TRUE, !.lockHeld = TRUE ],
                 server, sieve_scripts, sieve_id_seq, begun)

StartTLS ==
    /\ Reading
    /\ \E handshake \in BOOLEAN, acquired \in AcquireOutcomes(session.lockHeld) :
          Handled(StartTLSOutcome(handshake, acquired))

\* GetScriptByName: the rows of the account with the name.
ScriptsByName(rows, name, userID) ==
    { r \in rows : r.name = name /\ r.account_id = userID }

\* A read of the script store made with the use-master flag useMaster.
ReadWith(rec, useMaster) == [ rec EXCEPT !.reads = @ \cup { useMaster } ]

\* Phase 3 of a writing command: the session is pinned to the master
\* database when the write lock was acquired; the command is answered either
\* way.
Pinned(sess, acquired) ==
    IF acquired THEN [ sess EXCEPT !.useMasterDB = TRUE ] ELSE sess

\* Faulty variant of NotAuthenticated: the command is not refused, it reads
\* the scripts and is answered OK.
NotAuthenticated_Served(command) ==
    /\ Reading
    /\ ~session.authenticated
    /\ Handled(Stay(Respond([ Began(command) EXCEPT !.reads = { FALSE } ], "OK")))

\* The command is refused before its handler: the session is not
\* authenticated.
NotAuthenticated(command) ==
    /\ Reading
    /\ ~session.authenticated
    /\ Handled(Stay(Respond(Began(command), "NO Not authenticated")))

\* handleListScripts
ListScriptsOutcome(acquired, dbOK) ==
    LET rec == Began("LISTSCRIPTS")
    IN  IF session.ctxErr
          THEN Stay(Respond(rec, "NO Session closed"))
        ELSE IF ~acquired
          THEN Stay(Respond(TimedOut(rec, acquired), "NO Server busy, try again later"))
        ELSE IF ~dbOK
          THEN Stay(Respond(ReadWith(rec, session.useMasterDB), "NO Internal server error"))
        ELSE Stay(Respond(ReadWith(rec, session.useMasterDB), "OK"))

handleListScripts ==
    \/ NotAuthenticated("LISTSCRIPTS")
    \/ /\ Reading
       /\ session.authenticated
       /\ \E acquired \in AcquireOutcomes(session.lockHeld), dbOK \in BOOLEAN :
             Handled(ListScriptsOutcome(acquired, dbOK))

\* handleGetScript
GetScriptOutcome(name, acquired) ==
    LET rec == [ Began("GETSCRIPT") EXCEPT !.name = name ]
    IN  IF session.ctxErr
          THEN Stay(Respond(rec, "NO Session closed"))
        ELSE IF ~acquired
          THEN Stay(Respond(TimedOut(rec, acquired), "NO Server busy, try again later"))
        ELSE IF ScriptsByName(sieve_scripts, name, session.User) = {}
          THEN Stay(Respond(ReadWith(rec, session.useMasterDB), "NO No such script"))
        ELSE Stay(Respond(ReadWith(rec, session.useMasterDB), "OK"))

handleGetScript ==
    \/ NotAuthenticated("GETSCRIPT")
    \/ /\ Reading
       /\ session.authenticated
       /\ \E name \in ScriptNames, acquired \in AcquireOutcomes(session.lockHeld) :
             Handled(GetScriptOutcome(name, acquired))

\* Phase 2 of handlePutScript passes the content on to the script store.
ContentAccepted_Unchecked(content) == TRUE

ContentAccepted(content) ==
    /\ ~(maxScriptSize > 0 /\ Len(content) > maxScriptSize)
    /\ Parses(content)

\* handlePutScript
PutScriptOutcome(name, content, acquired, dbOK, pinned) ==
    LET rec == [ Began("PUTSCRIPT") EXCEPT !.name = name, !.script = content ]
        userID == session.User
        read == ReadWith(rec, session.useMasterDB)
        found == ScriptsByName(sieve_scripts, name, userID)
        script == CHOOSE r \in found : TRUE
        done == [ TimedOut(read, pinned) EXCEPT !.wrote = TRUE ]
    IN  IF session.ctxErr
          THEN Stay(Respond(rec, "NO Session closed"))
        ELSE IF ~acquired
          THEN Stay(Respond(TimedOut(rec, acquired), "NO Server busy, try again later"))
        ELSE IF ~ContentAccepted(content)
          THEN IF maxScriptSize > 0 /\ Len(content) > maxScriptSize
                 THEN Stay(Respond(rec, "NO (MAXSCRIPTSIZE) Script size exceeds maximum allowed size"))
                 ELSE Stay(Respond(rec, "NO Script validation failed"))
        ELSE IF ~dbOK
          THEN Stay(Respond(read, "NO Internal server error"))
        ELSE IF found # {}
          THEN Out(Pinned(session, pinned), server,
                   (sieve_scripts \ { script })
                       \cup { [ script EXCEPT !.name = name, !.script = content ] },
                   sieve_id_seq,
                   Respond(done, "OK Script updated"))
        ELSE Out(Pinned(session, pinned), server,
                 sieve_scripts
                     \cup { ScriptRow(sieve_id_seq + 1, userID, name, content, FALSE) },
                 sieve_id_seq + 1,
                 Respond(done, "OK Script stored"))

handlePutScript ==
    \/ NotAuthenticated("PUTSCRIPT")
    \/ /\ Reading
       /\ session.authenticated
       /\ sieve_id_seq + 1 \in ScriptIds
       /\ \E name \in ScriptNames, content \in ScriptTexts,
             acquired \in AcquireOutcomes(session.lockHeld) :
             \E dbOK \in BOOLEAN, pinned \in AcquireOutcomes(session.lockHeld) :
                Handled(PutScriptOutcome(name, content, acquired, dbOK, pinned))

\* SetScriptActive(scriptID, userID, true) as one committed transaction.
SetScriptActiveRows(rows, scriptID, userID) ==
    { IF r.id = scriptID /\ r.account_id = userID
        THEN [ r EXCEPT !.active = TRUE ]
        ELSE IF r.account_id = userID /\ r.active
               THEN [ r EXCEPT !.active = FALSE ]
               ELSE r : r \in rows }

\* handleSetActive
SetActiveOutcome(name, acquired, dbOK, pinned) ==
    LET rec == [ Began("SETACTIVE") EXCEPT !.name = name ]
        userID == session.User
        read == ReadWith(rec, session.useMasterDB)
        found == ScriptsByName(sieve_scripts, name, userID)
        script == CHOOSE r \in found : TRUE
        done == [ TimedOut(read, pinned) EXCEPT !.wrote = TRUE ]
    IN  IF session.ctxErr
          THEN Stay(Respond(rec, "NO Session closed"))
        ELSE IF ~acquired
          THEN Stay(Respond(TimedOut(rec, acquired), "NO Server busy, try again later"))
        ELSE IF found = {}
          THEN Stay(Respond(read, "NO No such script"))
        ELSE IF ~Parses(script.script)
          THEN Stay(Respond(read, "NO Script validation failed"))
        ELSE IF ~dbOK
          THEN Stay(Respond(read, "NO Internal server error"))
        ELSE Out(Pinned(session, pinned), server,
                 SetScriptActiveRows(sieve_scripts, script.id, userID),
                 sieve_id_seq,
                 Respond(done, "OK Script activated"))

handleSetActive ==
    \/ NotAuthenticated("SETACTIVE")
    \/ /\ Reading
       /\ session.authenticated
       /\ \E name \in ScriptNames, acquired \in AcquireOutcomes(session.lockHeld) :
             \E dbOK \in BOOLEAN, pinned \in AcquireOutcomes(session.lockHeld) :
                Handled(SetActiveOutcome(name, acquired, dbOK, pinned))

\* handleDeleteScript
DeleteScriptOutcome(name, acquired, dbOK, pinned) ==
    LET rec == [ Began("DELETESCRIPT") EXCEPT !.name = name ]
        userID == session.User
        read == ReadWith(rec, session.useMasterDB)
        found == ScriptsByName(sieve_scripts, name, userID)
        script == CHOOSE r \in found : TRUE
        done == [ TimedOut(read, pinned) EXCEPT !.wrote = TRUE ]
    IN  IF session.ctxErr
          THEN Stay(Respond(rec, "NO Session closed"))
        ELSE IF ~acquired
          THEN Stay(Respond(TimedOut(rec, acquired), "NO Server busy, try again later"))
        ELSE IF found = {}
          THEN Stay(Respond(read, "NO No such script"))
        ELSE IF ~dbOK
          THEN Stay(Respond(read, "NO Internal server error"))
        ELSE Out(Pinned(session, pinned), server,
                 sieve_scripts \ { script }, sieve_id_seq,
                 Respond(done, "OK Script deleted"))

handleDeleteScript ==
    \/ NotAuthenticated("DELETESCRIPT")
    \/ /\ Reading
       /\ session.authenticated
       /\ \E name \in ScriptNames, acquired \in AcquireOutcomes(session.lockHeld) :
             \E dbOK \in BOOLEAN, pinned \in AcquireOutcomes(session.lockHeld) :
                Handled(DeleteScriptOutcome(name, acquired, dbOK, pinned))

\* handleCapability: sendCapabilities lists the full capabilities under the
\* read lock, the minimal ones when the lock timed out; OK follows.
handleCapability ==
    /\ Reading
    /\ \E acquired \in AcquireOutcomes(session.lockHeld) :
          Handled(Stay(Respond(Respond(TimedOut(Began("CAPABILITY"), acquired),
                                       IF acquired THEN "capabilities"
                                                   ELSE "minimal capabilities"),
                               "OK")))

\* case "NOOP" of handleConnection.
Noop ==
    /\ Reading
    /\ Handled(Stay(Respond(Began("NOOP"), "OK")))

\* case "LOGOUT" of handleConnection: s.Close(), then the return with its
\* deferred calls.
Logout ==
    /\ Reading
    /\ \E acquired \in AcquireOutcomes(session.lockHeld), again \in BOOLEAN :
          LET rec == Respond(Began("LOGOUT"), "OK Goodbye")
              c == Close(session, server)
              r == Return(c.session, c.server)
          IN  Handled(Out(r.session, r.server, sieve_scripts, sieve_id_seq,
                          TimedOut(TimedOut(rec, acquired), again)))

\* The read of the next command fails: the client went away.
Disconnect ==
    /\ Reading
    /\ \E acquired \in BOOLEAN :
          LET r == Return(session, server)
          IN  Handled(Out(r.session, r.server, sieve_scripts, sieve_id_seq,
                          TimedOut(Began("EOF"), acquired)))

\* The session's context is cancelled: the server shuts down.
CancelContext ==
    /\ session.running
    /\ ~session.ctxErr
    /\ session' = [ session EXCEPT !.ctxErr = TRUE ]
    /\ UNCHANGED << server, last, ncommands, sieve_scripts, sieve_id_seq, nonsessvars >>

SessionNext ==
    \/ Login
    \/ handleAuthenticate
    \/ StartTLS
    \/ handleListScripts
    \/ handleGetScript
    \/ handlePutScript
    \/ handleSetActive
    \/ handleDeleteScript
    \/ handleCapability
    \/ Noop
    \/ Logout
    \/ Disconnect
    \/ CancelContext

SessionSpec == SessionInit /\ [][SessionNext]_vars

\* ------------------------------------------------------------ claims

\* The tagged answers that report success.
OKResponses ==
    { "OK", "OK Authenticated", "OK Script updated", "OK Script stored",
      "OK Script activated", "OK Script deleted", "OK Goodbye" }

\* The command's final answer reports success.
AnsweredOK(rec) ==
    /\ rec.responses # << >>
    /\ rec.responses[Len(rec.responses)] \in OKResponses

\* The step handles the command.
Handles(command) == ncommands' = ncommands + 1 /\ last'.command = command

\* C15: a PUTSCRIPT changes the stored scripts only if its script parses
\* under the configured extensions and is not larger than the configured
\* maximum size, the rows it writes hold that script, and a PUTSCRIPT that
\* is not answered OK leaves the stored scripts unchanged.
C15_StoredOnlyIfValid ==
    [][ Handles("PUTSCRIPT") =>
          /\ sieve_scripts' # sieve_scripts =>
                /\ Parses(last'.script)
                /\ Len(last'.script) <= maxScriptSize
                /\ \A r \in sieve_scripts' \ sieve_scripts :
                      r.script = last'.script /\ r.name = last'.name
          /\ ~AnsweredOK(last') => sieve_scripts' = sieve_scripts ]_vars

\* A PUTSCRIPT of a script that does not parse has been refused in a session
\* that had a write answered OK before.
C15_Witness ==
    /\ last.command = "PUTSCRIPT"
    /\ last.wasAuthenticated
    /\ last.script = SieveBroken
    /\ last.responses = << "NO Script validation failed" >>
    /\ last.wroteBefore

\* C16: whenever an acquisition of the session lock timed out in a command,
\* the command's only answer is NO Server busy, try again later: it neither
\* goes on nor reports success.
C16_TimeoutFailsCommand ==
    (last.timedOut /\ last.command # "EOF") =>
        last.responses = << "NO Server busy, try again later" >>

C18_AuthenticatedOnlyAfterRateLimit ==
    [][ (~session.authenticated /\ session'.authenticated) =>
          /\ last'.command \in { "LOGIN", "AUTHENTICATE" }
          /\ last'.rateLimitPassed ]_vars

\* C19: a STARTTLS issued while the session is authenticated is refused: it
\* does not begin the TLS negotiation and does not replace the connection.
C19_StartTLSOnlyNotAuthenticated ==
    [][ (Handles("STARTTLS") /\ session.authenticated) =>
          /\ session'.conn = session.conn
          /\ session'.isTLS = session.isTLS
          /\ ~AnsweredOK(last')
          /\ \A i \in DOMAIN last'.responses :
                last'.responses[i] # "OK Begin TLS negotiation" ]_vars

\* C20: once a PUTSCRIPT, SETACTIVE or DELETESCRIPT of the session has been
\* answered OK, every read of a later command of the session carries the
\* use-master flag.
C20_ReadsPinnedAfterWrite ==
    last.wroteBefore => \A useMaster \in last.reads : useMaster

\* C21: when handleConnection is back at the read of the next command, an
\* answer to the command it handled last has been written and flushed.
C21_AnsweredBeforeNextRead ==
    (session.running /\ last.command # "none") => last.responses # << >>

\* C22: the total-connections counter is the number of open sessions: the
\* one session is counted while it runs and not after it has closed,
\* whichever way it ended.
C22_TotalCountsOpenSessions ==
    server.totalConnections =
        IF session.running THEN NewServer.totalConnections
                           ELSE NewServer.totalConnections - 1

\* C23: the authenticated-connections counter is the number of open
\* sessions that are authenticated.
C23_AuthenticatedCountsSessions ==
    server.authenticatedConnections =
        IF session.running /\ session.authenticated
          THEN NewServer.authenticatedConnections + 1
          ELSE NewServer.authenticatedConnections

\* =============================================== ConnectionLimiter

LimiterInit == LimiterIdle /\ CoreIdle /\ PopIdle /\ PrelookupIdle /\ CacheIdle /\ AdminIdle /\ SearchIdle

\* Faulty variant of isTrustedConnection: no network is trusted.
isTrustedConnection_None(ip) == FALSE

\* isTrustedConnection: the address lies in one of cl.trustedNets.
isTrustedConnection(ip) == trustedNets # {} /\ ip \in trustedNets

\* The goroutine g goes on with the locals loc.
Goes(g, loc) == accepting' = [ accepting EXCEPT ![g] = loc ]

\* Accept(remoteAddr) is called.
BeginAccept(g) ==
    /\ accepting[g].pc \in { "idle", "refused" }
    /\ naccepts < MaxAccepts
    /\ naccepts' = naccepts + 1
    /\ \E ip \in RemoteIPs :
          Goes(g, [ NotAccepting EXCEPT !.pc = "CanAccept", !.ip = ip ])
    /\ UNCHANGED << currentTotal, perIPConnections, ipCounters, nonlimvars >>

\* CanAccept up to the read of the map: the total cap against one Load of
\* currentTotal, then whether the per-IP cap applies.
CanAcceptTotal(g) ==
    LET a == accepting[g]
    IN  /\ a.pc = "CanAccept"
        /\ IF maxConnections <= 0 /\ maxPerIP <= 0
             THEN Goes(g, [ a EXCEPT !.pc = "AddTotal" ])
           ELSE IF maxConnections > 0 /\ currentTotal >= maxConnections
             THEN Goes(g, [ a EXCEPT !.pc = "refused",
                                     !.err = "maximum connections reached" ])
           ELSE IF maxPerIP > 0 /\ ~isTrustedConnection(a.ip)
             THEN Goes(g, [ a EXCEPT !.pc = "CanAcceptLookup" ])
           ELSE Goes(g, [ a EXCEPT !.pc = "AddTotal" ])
        /\ UNCHANGED << currentTotal, perIPConnections, ipCounters, naccepts, nonlimvars >>

\* CanAccept: ipCounter, exists := cl.perIPConnections[ip] under the read lock.
CanAcceptLookup(g) ==
    LET a == accepting[g]
    IN  /\ a.pc = "CanAcceptLookup"
        /\ IF perIPConnections[a.ip] # Nil
             THEN Goes(g, [ a EXCEPT !.pc = "CanAcceptLoad",
                                     !.seen = perIPConnections[a.ip] ])
             ELSE Goes(g, [ a EXCEPT !.pc = "AddTotal" ])
        /\ UNCHANGED << currentTotal, perIPConnections, ipCounters, naccepts, nonlimvars >>

\* CanAccept: ipCounter.Load() against the per-IP cap.
CanAcceptLoad(g) ==
    LET a == accepting[g]
    IN  /\ a.pc = "CanAcceptLoad"
        /\ IF ipCounters[a.seen] >= maxPerIP
             THEN Goes(g, [ a EXCEPT !.pc = "refused", !.seen = Nil,
                                     !.err = "maximum connections per IP reached" ])
             ELSE Goes(g, [ a EXCEPT !.pc = "AddTotal", !.seen = Nil ])
        /\ UNCHANGED << currentTotal, perIPConnections, ipCounters, naccepts, nonlimvars >>

\* Accept: cl.currentTotal.Add(1) and isTrusted.
AddTotal(g) ==
    LET a == accepting[g]
        isTrusted == isTrustedConnection(a.ip)
    IN  /\ a.pc = "AddTotal"
        /\ currentTotal' = currentTotal + 1
        /\ IF maxPerIP > 0 /\ ~isTrusted
             THEN Goes(g, [ a EXCEPT !.pc = "Track", !.isTrusted = isTrusted ])
             ELSE Goes(g, [ a EXCEPT !.pc = "open", !.isTrusted = isTrusted ])
        /\ UNCHANGED << perIPConnections, ipCounters, naccepts, nonlimvars >>

\* A counter that is neither in the map nor held by a goroutine.
FreshCounter ==
    CHOOSE c \in CounterIds :
        /\ \A ip \in RemoteIPs : perIPConnections[ip] # c
        /\ \A g \in Goroutines : accepting[g].ipCounter # c /\ accepting[g].seen # c

\* Accept: the IP's counter is looked up, or created, under the write lock.
Track(g) ==
    LET a == accepting[g]
    IN  /\ a.pc = "Track"
        /\ IF perIPConnections[a.ip] # Nil
             THEN /\ Goes(g, [ a EXCEPT !.pc = "AddPerIP",
                                        !.ipCounter = perIPConnections[a.ip] ])
                  /\ UNCHANGED << perIPConnections, ipCounters >>
             ELSE /\ Goes(g, [ a EXCEPT !.pc = "AddPerIP", !.ipCounter = FreshCounter ])
                  /\ perIPConnections' = [ perIPConnections EXCEPT ![a.ip] = FreshCounter ]
                  /\ ipCounters' = [ ipCounters EXCEPT ![FreshCounter] = 0 ]
        /\ UNCHANGED << currentTotal, naccepts, nonlimvars >>

\* Accept: ipCounter.Add(1); Accept returns the release function.
AddPerIP(g) ==
    LET a == accepting[g]
    IN  /\ a.pc = "AddPerIP"
        /\ ipCounters' = [ ipCounters EXCEPT ![a.ipCounter] = @ + 1 ]
        /\ Goes(g, [ a EXCEPT !.pc = "open" ])
        /\ UNCHANGED << currentTotal, perIPConnections, naccepts, nonlimvars >>

\* The release function is called: cl.currentTotal.Add(-1).  The function
\* value keeps ip, ipCounter and isTrusted after it has returned.
Release(g) ==
    LET a == accepting[g]
    IN  /\ a.pc = "open"
        /\ currentTotal' = currentTotal - 1
        /\ IF maxPerIP > 0 /\ ~a.isTrusted /\ a.ipCounter # Nil
             THEN Goes(g, [ a EXCEPT !.pc = "ReleasePerIP" ])
             ELSE Goes(g, [ a EXCEPT !.pc = "idle" ])
        /\ UNCHANGED << perIPConnections, ipCounters, naccepts, nonlimvars >>

\* The release function: remaining := ipCounter.Add(-1).
ReleasePerIP(g) ==
    LET a == accepting[g]
    IN  /\ a.pc = "ReleasePerIP"
        /\ ipCounters' = [ ipCounters EXCEPT ![a.ipCounter] = @ - 1 ]
        /\ IF ipCounters[a.ipCounter] - 1 <= 0
             THEN Goes(g, [ a EXCEPT !.pc = "ReleaseDelete" ])
             ELSE Goes(g, [ a EXCEPT !.pc = "idle" ])
        /\ UNCHANGED << currentTotal, perIPConnections, naccepts, nonlimvars >>

\* The release function: under the write lock, the IP's entry is deleted
\* when the counter the goroutine holds is not positive.
ReleaseDelete(g) ==
    LET a == accepting[g]
    IN  /\ a.pc = "ReleaseDelete"
        /\ perIPConnections' =
              IF ipCounters[a.ipCounter] <= 0
                THEN [ perIPConnections EXCEPT ![a.ip] = Nil ]
                ELSE perIPConnections
        /\ Goes(g, [ a EXCEPT !.pc = "idle" ])
        /\ UNCHANGED << currentTotal, ipCounters, naccepts, nonlimvars >>

\* cleanup(): the entries whose counter is not positive are deleted.
cleanup ==
    /\ \E ip \in RemoteIPs :
          perIPConnections[ip] # Nil /\ ipCounters[perIPConnections[ip]] <= 0
    /\ perIPConnections' =
          [ ip \in RemoteIPs |->
              IF perIPConnections[ip] # Nil /\ ipCounters[perIPConnections[ip]] <= 0
                THEN Nil ELSE perIPConnections[ip] ]
    /\ UNCHANGED << currentTotal, ipCounters, accepting, naccepts, nonlimvars >>

LimiterNext ==
    \/ \E g \in Goroutines :
          \/ BeginAccept(g)
          \/ CanAcceptTotal(g)
          \/ CanAcceptLookup(g)
          \/ CanAcceptLoad(g)
          \/ AddTotal(g)
          \/ Track(g)
          \/ AddPerIP(g)
          \/ Release(g)
          \/ ReleasePerIP(g)
          \/ ReleaseDelete(g)
    \/ cleanup

LimiterSpec == LimiterInit /\ [][LimiterNext]_vars

\* The goroutines whose Accept returned a release function that has not been
\* called.
Open == { g \in Goroutines : accepting[g].pc = "open" }

\* C24: with a total cap, the connections accepted and not released are at
\* most maxConnections.
C24_TotalCapHolds ==
    maxConnections > 0 => Cardinality(Open) <= maxConnections

\* C25: with a per-IP cap, the connections accepted and not released from
\* one IP outside the trusted networks are at most maxPerIP.
C25_PerIPCapHolds ==
    maxPerIP > 0 =>
        \A ip \in RemoteIPs \ trustedNets :
            Cardinality({ g \in Open : accepting[g].ip = ip }) <= maxPerIP

\* The goroutines whose connection has been added to currentTotal and not
\* taken off it.
Counted ==
    { g \in Goroutines : accepting[g].pc \in { "Track", "AddPerIP", "open" } }

\* C26: a connection from a trusted network is never refused for the per-IP
\* cap and has no per-IP counter, in the map or in its release function; it
\* is counted in currentTotal like every accepted connection; and its
\* CanAccept refuses it exactly when currentTotal has reached the total cap.
C26_TrustedBypassesOnlyPerIP ==
    /\ [] /\ \A g \in Goroutines :
               accepting[g].ip \in trustedNets =>
                  /\ accepting[g].err # "maximum connections per IP reached"
                  /\ accepting[g].ipCounter = Nil
                  /\ accepting[g].seen = Nil
          /\ \A ip \in trustedNets : perIPConnections[ip] = Nil
          /\ currentTotal = Cardinality(Counted)
    /\ [][ \A g \in Goroutines :
             ( /\ accepting[g].pc = "CanAccept"
               /\ accepting'[g].pc # "CanAccept"
               /\ accepting[g].ip \in trustedNets ) =>
                 IF maxConnections > 0 /\ currentTotal >= maxConnections
                   THEN /\ accepting'[g].pc = "refused"
                        /\ accepting'[g].err = "maximum connections reached"
                   ELSE accepting'[g].pc = "AddTotal" ]_vars

\* Two connections from one trusted address are open, more than the per-IP
\* cap allows an address outside the trusted networks, and a third from the
\* same address has been refused for the total cap.
C26_Witness ==
    \E g1, g2, g3 \in Goroutines :
        /\ g1 # g2
        /\ \A g \in { g1, g2, g3 } : accepting[g].ip \in trustedNets
        /\ accepting[g1].ip = accepting[g2].ip
        /\ { g1, g2 } \subseteq Open
        /\ Cardinality({ g1, g2 }) > maxPerIP
        /\ accepting[g3].pc = "refused"
        /\ accepting[g3].err = "maximum connections reached"
        /\ currentTotal = maxConnections

\* =============================================== POP3 XCLIENT

\* The session of a server with or without a limiter, accepted from an
\* address inside or outside the trusted networks, with or without a PROXY
\* header.
PopInit ==
    /\ \E limiter \in BOOLEAN, remoteAddr \in RemoteIPs,
          proxyIP \in { "" } \cup RemoteIPs :
          pop = NewPOP3Session(limiter, remoteAddr, proxyIP)
    /\ pop_last = NoXclient
    /\ npop = 0
    /\ CoreIdle /\ LimiterIdle /\ PrelookupIdle /\ CacheIdle /\ AdminIdle /\ SearchIdle

\* Faulty variant of isFromTrustedProxy: every connection is trusted.
isFromTrustedProxy_Always(sess) == TRUE

\* isFromTrustedProxy
isFromTrustedProxy(sess) ==
    IF ~sess.limiter
      THEN FALSE
    ELSE IF sess.ProxyIP # ""
      THEN isTrustedConnection(sess.ProxyIP)
    ELSE isTrustedConnection(sess.remoteAddr)

\* forwardingParams.DecrementTTL(): false when no hop is left.
DecrementTTL(ProxyTTL) ==
    IF ProxyTTL <= 0 THEN [ ok |-> FALSE, ProxyTTL |-> ProxyTTL ]
                     ELSE [ ok |-> TRUE, ProxyTTL |-> ProxyTTL - 1 ]

\* handleXCLIENT
handleXCLIENT ==
    /\ npop < MaxXclients
    /\ npop' = npop + 1
    /\ \E args \in XclientArgs :
          LET ttl == DecrementTTL(args.ProxyTTL)
              answered(response) == pop_last' = [ args |-> args, response |-> response ]
          IN  IF ~isFromTrustedProxy(pop)
                THEN answered("-ERR Connection not from trusted proxy") /\ pop' = pop
              ELSE IF ~args.parses
                THEN answered("-ERR Invalid XCLIENT parameters") /\ pop' = pop
              ELSE IF ~args.valid
                THEN answered("-ERR Invalid forwarding parameters") /\ pop' = pop
              ELSE IF ~ttl.ok
                THEN answered("-ERR Proxy TTL expired") /\ pop' = pop
              ELSE /\ answered("+OK XCLIENT parameters accepted")
                   /\ pop' = [ pop EXCEPT
                         !.ForwardingParams =
                             [ set |-> TRUE, OriginatingIP |-> args.OriginatingIP,
                               ProxyTTL |-> ttl.ProxyTTL,
                               proxySourceIP |-> args.proxySourceIP ],
                         !.RemoteIP =
                             IF args.OriginatingIP # "" THEN args.OriginatingIP ELSE @,
                         !.ProxyIP =
                             IF args.proxySourceIP # "" /\ pop.ProxyIP = ""
                               THEN args.proxySourceIP ELSE @ ]
    /\ UNCHANGED nonpopvars

PopNext == handleXCLIENT

PopSpec == PopInit /\ [][PopNext]_vars

\* The answers of handleXCLIENT that refuse the command.
XclientErrors ==
    { "-ERR Connection not from trusted proxy", "-ERR Invalid XCLIENT parameters",
      "-ERR Invalid forwarding parameters", "-ERR Proxy TTL expired" }

\* C27: an XCLIENT of a session whose server has no limiter, or whose proxy
\* address (the connection's address when the session has none) is outside
\* the trusted networks, is answered -ERR and leaves ForwardingParams,
\* RemoteIP and ProxyIP as they were.
C27_XclientOnlyFromTrustedProxy ==
    [][ ( /\ npop' = npop + 1
          /\ \/ ~pop.limiter
             \/ (IF pop.ProxyIP # "" THEN pop.ProxyIP ELSE pop.remoteAddr)
                   \notin trustedNets ) =>
          /\ pop_last'.response = "-ERR Connection not from trusted proxy"
          /\ pop'.ForwardingParams = pop.ForwardingParams
          /\ pop'.RemoteIP = pop.RemoteIP
          /\ pop'.ProxyIP = pop.ProxyIP ]_vars

\* An XCLIENT with acceptable parameters that name another client address
\* has been refused: the server has a limiter, the session's address is
\* outside the trusted networks, and nothing of the session has changed.
C27_Witness ==
    /\ pop.limiter
    /\ pop.ProxyIP = ""
    /\ pop.remoteAddr \notin trustedNets
    /\ pop_last.args.parses /\ pop_last.args.valid
    /\ pop_last.args.ProxyTTL > 0
    /\ pop_last.args.OriginatingIP = ClientIP
    /\ pop_last.response = "-ERR Connection not from trusted proxy"
    /\ pop.RemoteIP = pop.remoteAddr
    /\ pop.ForwardingParams = NoForwardingParams

\* =============================================== HTTP pre-lookup

PrelookupInit == PrelookupIdle /\ CoreIdle /\ LimiterIdle /\ PopIdle /\ CacheIdle /\ AdminIdle /\ SearchIdle

\* Faulty variant of Classify: a server error is reported as an unknown user.
Classify_ServerErrorNotFound(outcome) ==
    IF outcome = "200"
      THEN [ authResult |-> "AuthSuccess", err |-> "nil", failure |-> FALSE ]
      ELSE [ authResult |-> "AuthUserNotFound", err |-> "nil", failure |-> FALSE ]

\* What LookupUserRoute returns for the endpoint's answer, and whether the
\* circuit breaker counts the request as a failure.
Classify(outcome) ==
    IF outcome = "200"
      THEN [ authResult |-> "AuthSuccess", err |-> "nil", failure |-> FALSE ]
    ELSE IF outcome \in { "400", "404" }
      THEN [ authResult |-> "AuthUserNotFound", err |-> "nil", failure |-> FALSE ]
    ELSE [ authResult |-> "AuthFailed", err |-> "ErrPrelookupTransient",
           failure |-> TRUE ]

\* The breaker as a request finds it: an open breaker whose timeout has
\* passed is half-open, in a new generation.
CurrentBreaker ==
    IF breaker.state = "open" /\ breaker.openFor = 0
      THEN [ NewBreaker EXCEPT !.state = "half-open",
                               !.generation = breaker.generation + 1 ]
      ELSE breaker

\* Faulty variant of Rejects: every request is let through.
Rejects_Never(b) == FALSE

\* The breaker b refuses a request: it is open, or half-open with its probe
\* taken.
Rejects(b) ==
    \/ b.state = "open"
    \/ b.state = "half-open" /\ b.requests >= breakerMaxRequests

\* The counts of a closed breaker open it.
ReadyToTrip(requests, failures) ==
    /\ requests >= breakerWindow
    /\ failures * 10 >= breakerFailuresInTen * requests

\* LookupUserRoute is called: the breaker refuses the request or lets it
\* through to the endpoint.
BeginLookup(l) ==
    /\ lookup[l].pc \in { "idle", "done" }
    /\ nlookups < MaxLookups
    /\ nlookups' = nlookups + 1
    /\ LET b == CurrentBreaker
       IN  IF Rejects(b)
             THEN /\ breaker' = b
                  /\ lookup' = [ lookup EXCEPT ![l] =
                        [ pc |-> "done", generation |-> b.generation,
                          admitted |-> "rejected", outcome |-> "",
                          authResult |-> "AuthFailed",
                          err |-> "ErrPrelookupTransient" ] ]
             ELSE /\ breaker' = [ b EXCEPT !.requests = @ + 1 ]
                  /\ lookup' = [ lookup EXCEPT ![l] =
                        [ NoLookup EXCEPT !.pc = "inflight",
                                          !.generation = b.generation,
                                          !.admitted = b.state ] ]
    /\ UNCHANGED nonprevars

\* The breaker after a request of its generation ended.
AfterRequest(b, failure) ==
    IF failure
      THEN IF b.state = "half-open" \/ ReadyToTrip(b.requests, b.failures + 1)
             THEN [ NewBreaker EXCEPT !.state = "open",
                                      !.generation = b.generation + 1,
                                      !.openFor = breakerTimeout ]
             ELSE [ b EXCEPT !.failures = @ + 1 ]
      ELSE IF b.state = "half-open" /\ b.successes + 1 >= breakerMaxRequests
             THEN [ NewBreaker EXCEPT !.generation = b.generation + 1 ]
             ELSE [ b EXCEPT !.successes = @ + 1 ]

\* The endpoint answers, or the request fails on the network.
EndLookup(l) ==
    /\ lookup[l].pc = "inflight"
    /\ \E outcome \in HTTPOutcomes :
          LET c == Classify(outcome)
              b == CurrentBreaker
          IN  /\ lookup' = [ lookup EXCEPT ![l] =
                    [ @ EXCEPT !.pc = "done", !.outcome = outcome,
                               !.authResult = c.authResult, !.err = c.err ] ]
              /\ breaker' = IF lookup[l].generation = b.generation
                              THEN AfterRequest(b, c.failure)
                              ELSE b
    /\ UNCHANGED << nlookups, nonprevars >>

\* Time passes while the breaker is open.
BreakerTick ==
    /\ breaker.state = "open"
    /\ breaker.openFor > 0
    /\ breaker' = [ breaker EXCEPT !.openFor = @ - 1 ]
    /\ UNCHANGED << lookup, nlookups, nonprevars >>

PrelookupNext ==
    \/ \E l \in Lookers : BeginLookup(l) \/ EndLookup(l)
    \/ BreakerTick

PrelookupSpec == PrelookupInit /\ [][PrelookupNext]_vars

C29_BreakerOpenIsTransient ==
    [][ /\ \A l \in Lookers :
             ( /\ lookup[l].pc = "inflight" /\ lookup'[l].pc = "done"
               /\ lookup'[l].err = "ErrPrelookupTransient"
               /\ breaker.state = "closed"
               /\ lookup[l].generation = breaker.generation
               /\ breaker.requests >= breakerWindow
               /\ (breaker.failures + 1) * 10 >= breakerFailuresInTen * breaker.requests ) =>
                 breaker'.state = "open" /\ breaker'.openFor = breakerTimeout
        /\ (breaker.state = "open" /\ breaker'.state # "open") => breaker.openFor = 0
        /\ \A l \in Lookers :
             ( /\ lookup[l].pc # "inflight"
               /\ lookup'[l] # lookup[l]
               /\ \/ breaker.state = "open" /\ breaker.openFor > 0
                  \/ breaker.state = "half-open" /\ breaker.requests >= 1 ) =>
                 /\ lookup'[l].pc = "done"
                 /\ lookup'[l].authResult = "AuthFailed"
                 /\ lookup'[l].err = "ErrPrelookupTransient" ]_vars

\* The breaker has opened, its timeout has passed, its probe is in flight,
\* and a second lookup has been refused.
C29_Witness ==
    \E l1, l2 \in Lookers :
        /\ breaker.state = "half-open"
        /\ lookup[l1].pc = "inflight" /\ lookup[l1].admitted = "half-open"
        /\ lookup[l2].pc = "done" /\ lookup[l2].admitted = "rejected"
        /\ lookup[l2].generation = breaker.generation
        /\ lookup[l2].err = "ErrPrelookupTransient"

\* ------------------------------------------------ the pre-lookup cache

CacheInit == CacheIdle /\ CoreIdle /\ LimiterIdle /\ PopIdle /\ PrelookupIdle /\ AdminIdle /\ SearchIdle

\* Faulty variant of Expired: no entry ever expires.
Expired_Never(entry, t) == FALSE

\* time.Now().After(entry.expiresAt), as Get and cleanup test it.
Expired(entry, t) == t > entry.expiresAt

\* The keys of c.entries.
CachedKeys(es) == { k \in CacheKeys : es[k] # NoEntry }

\* evictOldest: the keys the loop over the map can end with, one of those whose
\* expiresAt no other entry's is before (the map is ranged over in any order).
OldestKeys(es) ==
    { k \in CachedKeys(es) :
        \A o \in CachedKeys(es) : ~ (es[o].expiresAt < es[k].expiresAt) }

\* evictOldest with the loop ending on oldestKey.
evictOldest(es, oldestKey) ==
    IF oldestKey # "" THEN [ es EXCEPT ![oldestKey] = NoEntry ] ELSE es

\* Set: evicts when the map is full, then stores the result with the TTL of its kind.
Set(key, info, authResult) ==
    /\ ncache < MaxCacheOps
    /\ LET full == Cardinality(CachedKeys(entries)) >= maxSize
           isNegative == authResult \in { "AuthUserNotFound", "AuthFailed" }
           ttl == IF isNegative THEN negativeTTL ELSE positiveTTL
           entry == [ info |-> info, authResult |-> authResult,
                      expiresAt |-> now + ttl, isNegative |-> isNegative,
                      storedAt |-> now ]
       IN \E oldestKey \in IF full /\ CachedKeys(entries) # {}
                             THEN OldestKeys(entries) ELSE { "" } :
            /\ entries' = [ evictOldest(entries, oldestKey) EXCEPT ![key] = entry ]
            /\ cache_last' = [ op |-> "Set", key |-> key, info |-> info,
                               authResult |-> authResult, found |-> FALSE,
                               entry |-> entry, at |-> now, evicted |-> oldestKey ]
            /\ lastUsed' = [ k \in CacheKeys |->
                               IF k = key THEN ncache + 1
                               ELSE IF evictOldest(entries, oldestKey)[k] = NoEntry
                                 THEN 0 ELSE lastUsed[k] ]
    /\ ncache' = ncache + 1
    /\ UNCHANGED << now, noncachevars >>

\* Get: a miss without entry and with an expired one, else the entry's result.
Get(key) ==
    /\ ncache < MaxCacheOps
    /\ LET entry == entries[key]
           found == entry # NoEntry /\ ~ Expired(entry, now)
       IN /\ cache_last' = [ op |-> "Get", key |-> key,
                             info |-> IF found THEN entry.info ELSE "nil",
                             authResult |-> IF found THEN entry.authResult ELSE "none",
                             found |-> found, entry |-> entry, at |-> now,
                             evicted |-> "" ]
          /\ lastUsed' = IF found THEN [ lastUsed EXCEPT ![key] = ncache + 1 ]
                                  ELSE lastUsed
    /\ ncache' = ncache + 1
    /\ UNCHANGED << entries, now, noncachevars >>

\* cleanup of the cache: deletes the expired entries.
cacheCleanup ==
    /\ ncache < MaxCacheOps
    /\ entries' = [ k \in CacheKeys |->
                      IF entries[k] # NoEntry /\ Expired(entries[k], now)
                        THEN NoEntry ELSE entries[k] ]
    /\ cache_last' = [ NoCacheCall EXCEPT !.op = "cleanup", !.at = now ]
    /\ lastUsed' = [ k \in CacheKeys |->
                       IF entries[k] # NoEntry /\ Expired(entries[k], now)
                         THEN 0 ELSE lastUsed[k] ]
    /\ ncache' = ncache + 1
    /\ UNCHANGED << now, noncachevars >>

\* Time passes.
CacheTick ==
    /\ now < MaxNow
    /\ now' = now + 1
    /\ UNCHANGED << entries, cache_last, lastUsed, ncache, noncachevars >>

CacheNext ==
    \/ \E key \in CacheKeys, info \in Infos, authResult \in AuthResults :
         Set(key, info, authResult)
    \/ \E key \in CacheKeys : Get(key)
    \/ cacheCleanup
    \/ CacheTick

CacheSpec == CacheInit /\ [][CacheNext]_vars

\* The TTL of a stored result: positiveTTL for a positive one, negativeTTL
\* for a negative one.
TTLOfResult(authResult) ==
    IF authResult = "AuthSuccess" THEN positiveTTL ELSE negativeTTL

\* The time since the entry the last Get looked at was stored.
AgeAtGet == cache_last.at - cache_last.entry.storedAt

\* C30, as stated: Get returns a cached result only if it was stored less
\* than the TTL of its kind ago.
C30_ServedBeforeTTL ==
    (cache_last.op = "Get" /\ cache_last.found)
        => AgeAtGet < TTLOfResult(cache_last.entry.authResult)

\* C30, amended: Get returns a cached result only if it was stored at most
\* the TTL of its kind ago (positiveTTL for a positive result, negativeTTL for
\* a negative one), and then it returns the stored result; an entry stored
\* longer ago is a miss, whether or not cleanup has deleted it.
C30_ServedWithinTTL ==
    cache_last.op = "Get" =>
        /\ cache_last.found =>
             /\ cache_last.entry # NoEntry
             /\ AgeAtGet <= TTLOfResult(cache_last.entry.authResult)
             /\ cache_last.authResult = cache_last.entry.authResult
             /\ cache_last.info = cache_last.entry.info
        /\ ( /\ cache_last.entry # NoEntry
             /\ AgeAtGet > TTLOfResult(cache_last.entry.authResult) )
               => ~ cache_last.found

\* Get missed on an expired positive entry that cleanup has not deleted: it is
\* still in the map.
C30_Witness ==
    /\ cache_last.op = "Get" /\ ~ cache_last.found
    /\ cache_last.entry # NoEntry
    /\ cache_last.entry.authResult = "AuthSuccess"
    /\ AgeAtGet > positiveTTL
    /\ entries[cache_last.key] = cache_last.entry

\* C31: the pre-lookup cache never holds more than maxSize entries.
C31_AtMostMaxSize == Cardinality(CachedKeys(entries)) <= maxSize

\* The entries a step removed from the map without storing another under the key.
EvictedKeys == CachedKeys(entries) \ CachedKeys(entries')

\* The least recently used of the cached keys: no other was stored or served
\* in an earlier call.
LeastRecentlyUsed ==
    { k \in CachedKeys(entries) :
        \A o \in CachedKeys(entries) : lastUsed[k] <= lastUsed[o] }

\* A Set of a new key on a map at its maximum size.
SetNewKeyAtMaxSize ==
    /\ cache_last'.op = "Set" /\ ncache' = ncache + 1
    /\ Cardinality(CachedKeys(entries)) >= maxSize
    /\ cache_last'.key \notin CachedKeys(entries)

\* C32: when the cache is at its maximum size and a new key is stored, the
\* entry evicted is the least recently used one.
C32_EvictsLeastRecentlyUsed ==
    [][ SetNewKeyAtMaxSize =>
          /\ EvictedKeys # {}
          /\ EvictedKeys \subseteq LeastRecentlyUsed ]_vars

\* ------------------------------------------------ the admin HTTP API

\* A server with or without a list of allowed hosts.
AdminInit ==
    /\ \E allowedHosts \in AllowedHostsSettings :
          admin = NewAdminServer(allowedHosts)
    /\ admin_last = NoAdminRequest
    /\ nadmin = 0
    /\ CoreIdle /\ LimiterIdle /\ PopIdle /\ PrelookupIdle /\ CacheIdle /\ SearchIdle

\* strings.SplitN(authHeader, " ", 2): the header cut at its first space.
FirstSpace(h) ==
    IF \E i \in 1..Len(h) : h[i] = " "
      THEN CHOOSE i \in 1..Len(h) :
             h[i] = " " /\ \A j \in 1..(i - 1) : h[j] # " "
      ELSE 0

SplitN2(h) ==
    IF FirstSpace(h) = 0
      THEN << h >>
      ELSE << SubSeq(h, 1, FirstSpace(h) - 1),
              SubSeq(h, FirstSpace(h) + 1, Len(h)) >>

\* strings.ToLower.
ToLowerAtom(a) ==
    CASE a \in { "Bearer", "BEARER" } -> "bearer"
      [] a = "Basic" -> "basic"
      [] OTHER -> a

ToLower(h) == [ i \in 1..Len(h) |-> ToLowerAtom(h[i]) ]

\* Faulty variant of ConstantTimeCompare: every key compares equal.
ConstantTimeCompare_One(x, y) == 1

\* subtle.ConstantTimeCompare: 1 for equal contents, else 0.
ConstantTimeCompare(x, y) == IF x = y THEN 1 ELSE 0

\* The answer written by writeError.
writeError(status, message) ==
    [ status |-> status, message |-> message, logged |-> FALSE,
      handler |-> "", cache |-> admin.cache ]

\* The route handlers: the statistics are read, the purge empties the cache;
\* the ServeMux answers 404 for a path nobody registered.
ServeMux(route) ==
    CASE route = "GET /admin/cache/stats" ->
           [ status |-> "200", message |-> "stats", logged |-> TRUE,
             handler |-> "handleCacheStats", cache |-> admin.cache ]
      [] route = "POST /admin/cache/purge" ->
           [ status |-> "200", message |-> "Cache purged successfully",
             logged |-> TRUE, handler |-> "handleCachePurge", cache |-> {} ]
      [] OTHER ->
           [ status |-> "404", message |-> "404 page not found",
             logged |-> TRUE, handler |-> "", cache |-> admin.cache ]

\* loggingMiddleware: logs the request, then the mux serves it.
loggingMiddleware(route) == ServeMux(route)

\* allowedHostsMiddleware: with a list of allowed hosts, only they pass.
allowedHostsMiddleware(clientIP, route) ==
    IF admin.allowedHosts = {}
      THEN loggingMiddleware(route)
    ELSE IF clientIP \notin admin.allowedHosts
      THEN writeError("403", "Host not allowed")
      ELSE loggingMiddleware(route)

\* authMiddleware, the outermost handler.
authMiddleware(authHeader, clientIP, route) ==
    IF authHeader = << >>
      THEN writeError("401", "Authorization header required")
    ELSE LET parts == SplitN2(authHeader) IN
      IF Len(parts) # 2 \/ ToLower(parts[1]) # << "bearer" >>
        THEN writeError("401", "Authorization header must be 'Bearer <token>'")
      ELSE IF ConstantTimeCompare(parts[2], admin.apiKey) # 1
        THEN writeError("403", "Invalid API key")
        ELSE allowedHostsMiddleware(clientIP, route)

\* One request served by the handler setupRoutes returns.
ServeHTTP(authHeader, clientIP, route) ==
    /\ nadmin < MaxAdminRequests
    /\ LET answer == authMiddleware(authHeader, clientIP, route) IN
         /\ admin' = [ admin EXCEPT !.cache = answer.cache ]
         /\ admin_last' = [ authHeader |-> authHeader, clientIP |-> clientIP,
                            route |-> route, status |-> answer.status,
                            message |-> answer.message, logged |-> answer.logged,
                            handler |-> answer.handler ]
    /\ nadmin' = nadmin + 1
    /\ UNCHANGED nonadminvars

AdminNext ==
    \E authHeader \in Headers, clientIP \in AdminClients, route \in AdminRoutes :
        ServeHTTP(authHeader, clientIP, route)

AdminSpec == AdminInit /\ [][AdminNext]_vars

\* A header of the form "Bearer <token>", the scheme in any case.
BearerForm(h) == Len(h) >= 2 /\ h[1] \in { "Bearer", "BEARER" } /\ h[2] = " "

\* The token such a header carries.
BearerToken(h) == SubSeq(h, 3, Len(h))

\* The request carries the configured token.
CarriesAPIKey(h) == BearerForm(h) /\ BearerToken(h) = apiKey

\* C33: a request with no Authorization header or a malformed one is answered
\* 401, one with a wrong key 403, and in none of these cases a route handler
\* runs or the server's state changes.
C33_BearerTokenRequired ==
    /\ [] ( admin_last.route # "" =>
              /\ ~ BearerForm(admin_last.authHeader) =>
                   admin_last.status = "401"
              /\ ( /\ BearerForm(admin_last.authHeader)
                   /\ BearerToken(admin_last.authHeader) # apiKey ) =>
                   admin_last.status = "403"
              /\ ~ CarriesAPIKey(admin_last.authHeader) =>
                   admin_last.handler = "" /\ ~ admin_last.logged )
    /\ [][ ( nadmin' = nadmin + 1 /\ ~ CarriesAPIKey(admin_last'.authHeader) )
             => admin' = admin ]_vars

\* A request with a wrong key was answered 403 after a request with the key
\* had purged the cache.
C33_Witness ==
    /\ admin_last.status = "403"
    /\ admin_last.message = "Invalid API key"
    /\ admin_last.route = "POST /admin/cache/purge"
    /\ admin_last.authHeader = << "Bearer", " ", "wrong" >>
    /\ admin.cache = {}

\* ------------------------------------------------ IMAP SEARCH and ESEARCH

\* A session with a mailbox selected.
SearchInit ==
    /\ selected \in SearchMailboxes
    /\ search_last = NoSearch
    /\ nsearch = 0
    /\ CoreIdle /\ LimiterIdle /\ PopIdle /\ PrelookupIdle /\ CacheIdle /\ AdminIdle

\* The messages a search key matches.
Matches(m, criteria) ==
    CASE criteria.key = "UID" -> m.uid \in criteria.set
      [] criteria.key = "SEQ" -> m.seq \in criteria.set
      [] OTHER -> criteria.set \subseteq m.flags

\* The numbers a search returns: UIDs for UID SEARCH, else sequence numbers.
Matched(uid, criteria) ==
    { IF uid THEN m.uid ELSE m.seq : m \in { x \in selected : Matches(x, criteria) } }

\* The place of a message number in the order of numbers.
Place(n) == CHOOSE i \in 1..Len(NumberOrder) : NumberOrder[i] = n

MinOf(nums) == CHOOSE n \in nums : \A o \in nums : Place(n) <= Place(o)
MaxOf(nums) == CHOOSE n \in nums : \A o \in nums : Place(n) >= Place(o)
CountOf(nums) == << "0", "1", "2" >>[Cardinality(nums) + 1]

\* Faulty variant of WritesAll: ALL is written whenever it was asked for,
\* with nothing after it for an empty result.
WritesAll_Whenever(return, nums) == "ALL" \in return

\* The ESEARCH response carries ALL only for a result that is not empty.
WritesAll(return, nums) == "ALL" \in return /\ nums # {}

\* One item of a response: a keyword and what follows it.
Item(kw, arg) == << [ kw |-> kw, arg |-> arg ] >>

\* The untagged ESEARCH response: (TAG ...) [UID] [MIN n] [MAX n] [ALL set]
\* [COUNT n].
EncodeESearch(uid, return, nums) ==
    (IF uid THEN Item("UID", {}) ELSE << >>)
    \o (IF "MIN" \in return /\ nums # {} THEN Item("MIN", { MinOf(nums) }) ELSE << >>)
    \o (IF "MAX" \in return /\ nums # {} THEN Item("MAX", { MaxOf(nums) }) ELSE << >>)
    \o (IF WritesAll(return, nums) THEN Item("ALL", nums) ELSE << >>)
    \o (IF "COUNT" \in return THEN Item("COUNT", { CountOf(nums) }) ELSE << >>)

\* The untagged SEARCH response of a search without RETURN.
EncodeSearch(nums) == Item("SEARCH", nums)

\* The client reads one item into its SearchData; a keyword that needs a
\* number or a set and has none after it is a parse error.
ParseItem(data, item) ==
    CASE item.kw = "UID" -> [ data EXCEPT !.UID = TRUE ]
      [] item.kw = "SEARCH" -> [ data EXCEPT !.All = item.arg ]
      [] item.arg = {} -> [ data EXCEPT !.ok = FALSE ]
      [] item.kw = "MIN" -> [ data EXCEPT !.Min = CHOOSE n \in item.arg : TRUE ]
      [] item.kw = "MAX" -> [ data EXCEPT !.Max = CHOOSE n \in item.arg : TRUE ]
      [] item.kw = "ALL" -> [ data EXCEPT !.All = item.arg ]
      [] OTHER -> [ data EXCEPT !.Count = CHOOSE n \in item.arg : TRUE ]

RECURSIVE ParseResponse(_, _)
ParseResponse(data, response) ==
    IF response = << >> \/ ~ data.ok
      THEN data
      ELSE ParseResponse(ParseItem(data, Head(response)), Tail(response))

\* SEARCH or UID SEARCH, with or without RETURN options, and the client
\* reading the response.
Search(uid, criteria, esearch, return) ==
    /\ nsearch < MaxSearches
    /\ esearch <=> return # {}
    /\ LET nums == Matched(uid, criteria)
           response == IF esearch THEN EncodeESearch(uid, return, nums)
                                  ELSE EncodeSearch(nums)
       IN search_last' = [ uid |-> uid, criteria |-> criteria, return |-> return,
                           esearch |-> esearch, matched |-> nums,
                           response |-> response,
                           data |-> ParseResponse(NoSearchData, response) ]
    /\ nsearch' = nsearch + 1
    /\ UNCHANGED << selected, nonsearchvars >>

SearchNext ==
    \E uid \in BOOLEAN, criteria \in SearchCriteria, esearch \in BOOLEAN,
       return \in SUBSET ReturnOptions :
        Search(uid, criteria, esearch, return)

SearchSpec == SearchInit /\ [][SearchNext]_vars

\* The keywords of a response.
Keywords(response) == { response[i].kw : i \in 1..Len(response) }

\* C34: an ESEARCH whose result set is empty has no ALL keyword and no set
\* after it, and the client sees zero results (Min = 0, Max = 0).
C34_EmptyESearchOmitsAll ==
    (search_last.esearch /\ search_last.matched = {}) =>
        /\ "ALL" \notin Keywords(search_last.response)
        /\ \A i \in 1..Len(search_last.response) :
             search_last.response[i].kw \notin { "UID", "COUNT" }
               => search_last.response[i].arg # {}
        /\ search_last.data.ok
        /\ search_last.data.All = {}
        /\ search_last.data.Min = "0"
        /\ search_last.data.Max = "0"

\* UID SEARCH RETURN (MIN MAX ALL) for a UID the mailbox with a message in it
\* does not have: the response is the UID indicator alone.
C34_Witness ==
    /\ search_last.esearch /\ search_last.uid
    /\ search_last.return = { "MIN", "MAX", "ALL" }
    /\ search_last.criteria = [ key |-> "UID", set |-> { "uid99999" } ]
    /\ selected # {}
    /\ search_last.matched = {}
    /\ Keywords(search_last.response) = { "UID" }

\* ------------------------------------------------ the session, continued

\* C35: the session lock is not held across commands: when the session reads
\* its next command, no write lock taken by an earlier LOGIN or STARTTLS is
\* still held.
C35_LockNotHeldAcrossCommands == session.running => ~ session.lockHeld

\* The step authenticates the session, or answers a LOGIN or AUTHENTICATE
\* with OK.
Authenticates ==
    \/ session'.authenticated /\ ~ session.authenticated
    \/ session'.authenticated /\ session'.User # session.User
    \/ /\ Handles("LOGIN") \/ Handles("AUTHENTICATE")
       /\ AnsweredOK(last')

\* C36: a session becomes authenticated as an account only by a command in
\* which that account's own password was verified or the master credential
\* was presented; an AUTHENTICATE PLAIN with a non-master identity and an
\* authorization identity other than the authentication identity is refused
\* and leaves the session's authentication as it was, unauthenticated in a
\* session that was.
C36_AuthenticatedOnlyByPasswordOrMaster ==
    /\ [][ Authenticates =>
             /\ session'.authenticated
             /\ session'.User # NoAccount
             /\ \/ last'.passwordVerified = session'.User
                \/ last'.masterPresented ]_vars
    /\ [][ ( /\ Handles("AUTHENTICATE")
             /\ ~ last'.masterPresented
             /\ last'.authzID \notin { "", last'.authnID } )
             => /\ last'.responses = << "NO Proxy authentication not supported" >>
                /\ session'.authenticated = session.authenticated
                /\ session'.User = session.User ]_vars

\* AUTHENTICATE PLAIN with the identity of one account, its password, and
\* another account as authorization identity has been refused; the session
\* is not authenticated.
C36_Witness ==
    /\ last.command = "AUTHENTICATE"
    /\ last.authnID = "u1" /\ last.authzID = "admin"
    /\ ~ last.masterPresented
    /\ last.responses = << "NO Proxy authentication not supported" >>
    /\ ~ session.authenticated /\ session.User = NoAccount

\* The commands that read or change the stored scripts.
ScriptCommands ==
    { "LISTSCRIPTS", "GETSCRIPT", "PUTSCRIPT", "SETACTIVE", "DELETESCRIPT" }

\* C37: before the session is authenticated, LISTSCRIPTS, GETSCRIPT,
\* PUTSCRIPT, SETACTIVE and DELETESCRIPT are each answered NO Not
\* authenticated, and neither read nor change any stored script.
C37_ScriptCommandsNeedAuthentication ==
    [][ ( ~ session.authenticated /\ \E c \in ScriptCommands : Handles(c) )
          => /\ last'.responses = << "NO Not authenticated" >>
             /\ last'.reads = {}
             /\ ~ last'.wrote
             /\ sieve_scripts' = sieve_scripts
             /\ sieve_id_seq' = sieve_id_seq
             /\ session' = session ]_vars

\* A PUTSCRIPT has been refused in a session that is not authenticated, as
\* its second or a later command.
C37_Witness ==
    /\ last.command = "PUTSCRIPT"
    /\ ~ last.wasAuthenticated /\ ~ session.authenticated
    /\ last.responses = << "NO Not authenticated" >>
    /\ ncommands >= 2

\* ------------------------------------------------ the script store, continued

\* The transaction t is a SetScriptActive(scriptID, userID, true) for a script
\* the account had when it began; it returned no error and this step commits
\* it: handleSetActive answers OK Script activated.
ActivationCommits(t) ==
    /\ sieve_tx[t].pc = "ret" /\ sieve_tx'[t].pc = "done"
    /\ sieve_tx[t].op.kind = "setactive" /\ sieve_tx[t].op.active
    /\ sieve_tx[t].op.found
    /\ sieve_tx[t].err = "nil"

\* The account's committed active scripts.
ActiveScripts(rows, account_id) ==
    { r.id : r \in { q \in rows : q.account_id = account_id /\ q.active } }

\* C38: when SETACTIVE is answered OK Script activated for a script, that
\* script is the account's single active script at that moment, whatever
\* another session deletes or activates meanwhile.
C38_ActivatedIsSingleActive ==
    [][ \A t \in Tx :
          ActivationCommits(t) =>
              ActiveScripts(sieve_scripts', sieve_tx[t].op.userID)
                  = { sieve_tx[t].op.scriptID } ]_vars

\* The release function of a connection is invoked once more after it has
\* returned: it has no guard of its own, so it starts again with
\* cl.currentTotal.Add(-1).  naccepts bounds these calls too.
ReleaseAgain(g) ==
    LET a == accepting[g]
    IN  /\ a.pc = "idle" /\ a.ip # ""
        /\ naccepts < MaxAccepts
        /\ naccepts' = naccepts + 1
        /\ currentTotal' = currentTotal - 1
        /\ IF maxPerIP > 0 /\ ~a.isTrusted /\ a.ipCounter # Nil
             THEN Goes(g, [ a EXCEPT !.pc = "ReleasePerIP" ])
             ELSE Goes(g, a)
        /\ UNCHANGED << perIPConnections, ipCounters, nonlimvars >>

\* The limiter with callers that may invoke a release function again.
ReleaseNext ==
    \/ LimiterNext
    \/ \E g \in Goroutines : ReleaseAgain(g)

ReleaseSpec == LimiterInit /\ [][ReleaseNext]_vars

\* The goroutines whose connection has been added to its per-IP counter and
\* not taken off it.
CountedPerIP(ip) ==
    { g \in Goroutines :
        accepting[g].ip = ip /\ accepting[g].pc \in { "open", "ReleasePerIP" } }

\* C39: currentTotal is the number of connections accepted and not released,
\* the counter that the map holds for an IP outside the trusted networks is
\* the number of connections accepted and not released from that IP, and no
\* counter is negative, whatever the interleaving of Accept, the release
\* functions (invoked once or more) and cleanup.
C39_CountersMatchConnections ==
    /\ currentTotal = Cardinality(Counted)
    /\ \A ip \in RemoteIPs \ trustedNets :
          perIPConnections[ip] # Nil =>
              ipCounters[perIPConnections[ip]] = Cardinality(CountedPerIP(ip))
    /\ currentTotal >= 0
    /\ \A c \in CounterIds : ipCounters[c] >= 0

\* The calls of InsertMessage / InsertMessageFromImporter that have returned
\* without error and whose transaction is still to be ended by the caller.
Returned ==
    { t \in Tx : /\ tx[t].op.kind \in {"insert", "import"}
                 /\ tx[t].pc = "ret" /\ tx[t].ret.err = "nil" }

\* C40: the UID that InsertMessage returns is the uid of the messages row
\* whose id it returns, also when the row was stored under a preserved UID
\* below the mailbox's highest_uid.
C40_ReturnsStoredUID ==
    \A t \in Returned :
        \E r \in messages : r.id = tx[t].ret.id /\ r.uid = tx[t].ret.uid

====
